---- MODULE Spec2Model ----
(***************************************************************************)
(* Model of the mesh-maintenance and plane-segmentation core of the VIO    *)
(* pipeline (src/src/mesh/Mesher.cpp).                                     *)
(*                                                                         *)
(* Numbers.  Coordinates are integers on a grid.  A landmark table holds   *)
(* double-precision points (any grid value); the mesh holds single-        *)
(* precision points, modelled as the even grid values (one mantissa bit    *)
(* less), and ToFloat is the narrowing conversion between the two.         *)
(* A length is kept as its square, a threshold as a rational <<n, d>>      *)
(* with d > 0, and a computed double as a record: "num" for sqrt(n/d),     *)
(* "nan" for 0/0 and "inf" for x/0 with x > 0, compared as IEEE does.      *)
(***************************************************************************)
EXTENDS Integers, Sequences, FiniteSets, TLC

VARIABLES
  FLAGS,      \* the gflags the mesher reads (set at start-up)
  mesh_,      \* Mesher::mesh_
  calls,      \* number of update_mesh_3d calls made so far
  aborted,    \* a CHECK failed: the process is gone
  last,       \* inputs of the most recent update_mesh_3d call
  prev_mesh,  \* the mesh as that call found it
  repeated,   \* that call had the inputs of the call before it
  call,       \* inputs of a single call of a pure function
  ret,        \* what that call returned
  planes_,    \* the caller's plane list, handed to cluster_planes_from_mesh
  static_plane_id, \* plane_id, the static counter of segmentNewPlanes
  mesher,     \* the number of the Mesher instance in use
  created,    \* the symbols issued so far, in the order of issue, each with
              \* the instance that issued it
  clusters,   \* number of cluster_planes_from_mesh calls made so far
  cluster     \* the most recent of these calls: what it was given and made

meshVars == <<mesh_, calls, last, prev_mesh, repeated>>
planeVars == <<planes_, static_plane_id, mesher, created, clusters, cluster>>
vars == <<FLAGS, aborted, call, ret, meshVars, planeVars>>

(***************************************************************************)
(* Vectors and numbers                                                     *)
(***************************************************************************)
Min2(a, b) == IF a <= b THEN a ELSE b
Max2(a, b) == IF a >= b THEN a ELSE b
Abs(a) == IF a < 0 THEN -a ELSE a

Sub(p, q) == <<p[1] - q[1], p[2] - q[2], p[3] - q[3]>>
Add(p, q) == <<p[1] + q[1], p[2] + q[2], p[3] + q[3]>>
Dot(p, q) == p[1] * q[1] + p[2] * q[2] + p[3] * q[3]
NormSq(p) == Dot(p, p)

\* double -> float: an even value is representable; an odd one is a tie and
\* goes to the neighbour with an even mantissa (round-half-to-even).
ToFloat(x) == IF x % 2 = 0 THEN x ELSE IF x % 4 = 1 THEN x - 1 ELSE x + 1
ToFloat3(p) == <<ToFloat(p[1]), ToFloat(p[2]), ToFloat(p[3])>>

Num(n, d) == [k |-> "num", n |-> n, d |-> d]
NaN == [k |-> "nan", n |-> 0, d |-> 1]
Inf == [k |-> "inf", n |-> 0, d |-> 1]
\* x / y for x = sqrt(xsq) >= 0 and y = sqrt(ysq) >= 0.
Div(xsq, ysq) == IF ysq > 0 THEN Num(xsq, ysq) ELSE IF xsq > 0 THEN Inf ELSE NaN
\* v >= thr and v <= thr for a computed v >= 0 and a threshold <<n, d>>.
Geq(v, thr) ==
  CASE v.k = "nan" -> FALSE
    [] v.k = "inf" -> TRUE
    [] OTHER -> thr[1] <= 0 \/ v.n * thr[2] * thr[2] >= thr[1] * thr[1] * v.d
Leq(v, thr) ==
  CASE v.k = "nan" -> FALSE
    [] v.k = "inf" -> FALSE
    [] OTHER -> thr[1] >= 0 /\ v.n * thr[2] * thr[2] <= thr[1] * thr[1] * v.d
Positive(thr) == thr[1] > 0

(***************************************************************************)
(* Mesh3D store                                                            *)
(***************************************************************************)
Vertex(lmk_id, pos) == [lmk_id |-> lmk_id, pos |-> pos]
DefaultVertex == Vertex(-1, <<0, 0, 0>>)
EmptyMesh == [vertices |-> <<>>, polygons |-> <<>>]

\* One slot per landmark-id; the supplied position overwrites the slot.
setVertex(vs, v) ==
  [id \in (DOMAIN vs) \cup {v.lmk_id} |-> IF id = v.lmk_id THEN v.pos ELSE vs[id]]
addPolygonToMesh(mesh, polygon) ==
  [vertices |-> setVertex(setVertex(setVertex(mesh.vertices, polygon[1]),
                                    polygon[2]), polygon[3]),
   polygons |-> Append(mesh.polygons,
                       <<polygon[1].lmk_id, polygon[2].lmk_id, polygon[3].lmk_id>>)]
getNumberOfPolygons(mesh) == Len(mesh.polygons)
getPolygon(mesh, i) ==
  [j \in 1..3 |-> Vertex(mesh.polygons[i][j], mesh.vertices[mesh.polygons[i][j]])]
Polygons(mesh) == [i \in 1..getNumberOfPolygons(mesh) |-> getPolygon(mesh, i)]

(***************************************************************************)
(* Triangle filter                                                         *)
(***************************************************************************)
\* gtsam::Pose3: a rotation (the identity, or a quarter turn about x, which
\* takes the optical axis z to world -y) and a translation.
Rotate(rot, p) == IF rot = "X90" THEN <<p[1], -p[3], p[2]>> ELSE p
Unrotate(rot, p) == IF rot = "X90" THEN <<p[1], p[3], -p[2]>> ELSE p
transform_to(pose, p) == Unrotate(pose.rot, Sub(p, pose.t))
transform_from(pose, p) == Add(Rotate(pose.rot, p), pose.t)

\* Mutant: the third side is left out of the ratio.
getRatioBetweenFirstTwoSides(d12, d23, d31) ==
  Div(Min2(d12, d23), Max2(d12, d23))

getRatioBetweenSmallestAndLargestSide(d12, d23, d31) ==
  LET minSide == Min2(d12, Min2(d23, d31))
      maxSide == Max2(d12, Max2(d23, d31))
  IN  Div(minSide, maxSide)

\* UtilsGeometry: smallest displacement across the optical axis over the
\* extent along it, for three points in the camera frame.
TangentialRadial(points) ==
  LET xy(p, q) == (p[1] - q[1]) * (p[1] - q[1]) + (p[2] - q[2]) * (p[2] - q[2])
      t == Min2(xy(points[1], points[2]),
                Min2(xy(points[2], points[3]), xy(points[3], points[1])))
      max_z == Max2(points[1][3], Max2(points[2][3], points[3][3]))
      min_z == Min2(points[1][3], Min2(points[2][3], points[3][3]))
  IN  Div(t, (max_z - min_z) * (max_z - min_z))

getRatioBetweenTangentialAndRadialDisplacement(p1, p2, p3, leftCameraPose) ==
  TangentialRadial(<<transform_to(leftCameraPose, p1),
                     transform_to(leftCameraPose, p2),
                     transform_to(leftCameraPose, p3)>>)

isBadTriangle(polygon, left_camera_pose, min_ratio, min_elongation_ratio, max_triangle_side) ==
  LET p1 == polygon[1].pos
      p2 == polygon[2].pos
      p3 == polygon[3].pos
      d12 == NormSq(Sub(p1, p2))
      d23 == NormSq(Sub(p2, p3))
      d31 == NormSq(Sub(p3, p1))
      ratioSides_i ==
        IF Positive(min_ratio)
          THEN getRatioBetweenSmallestAndLargestSide(d12, d23, d31)
          ELSE Num(0, 1)
      ratioTangentialRadial_i ==
        IF Positive(min_elongation_ratio)
          THEN getRatioBetweenTangentialAndRadialDisplacement(p1, p2, p3,
                                                              left_camera_pose)
          ELSE Num(0, 1)
      maxTriangleSide_i ==
        IF Positive(max_triangle_side)
          THEN Num(Max2(d12, Max2(d23, d31)), 1)
          ELSE Num(0, 1)
  IN  ~(/\ Geq(ratioSides_i, min_ratio)
        /\ Geq(ratioTangentialRadial_i, min_elongation_ratio)
        /\ Leq(maxTriangleSide_i, max_triangle_side))

(***************************************************************************)
(* Mesh updater                                                            *)
(***************************************************************************)
\* Frame: a pixel is the index of the keypoint it lies on (0: on none).
findLmkIdFromPixel(frame, pixel) ==
  IF pixel \in 1..Len(frame.landmarks_) THEN frame.landmarks_[pixel] ELSE -1

\* Mutant: a landmark that is not in the table is passed over and the loop
\* goes on with the next vertex.
RECURSIVE populate3dMeshLoopLeaking(_, _, _, _, _, _, _)
populate3dMeshLoopLeaking(st, i, j, mesh_2d, points_with_id_map, frame, a) ==
  IF i > Len(mesh_2d) THEN st
  ELSE IF j > 3 THEN
    populate3dMeshLoopLeaking(st, i + 1, 1, mesh_2d, points_with_id_map, frame, a)
  ELSE
    LET lmk_id == findLmkIdFromPixel(frame, mesh_2d[i][j])
        polygon ==
          IF lmk_id \in DOMAIN points_with_id_map
            THEN [st.polygon EXCEPT ![j] = Vertex(lmk_id, ToFloat3(points_with_id_map[lmk_id]))]
            ELSE st.polygon
        good == j = 3 /\ polygon[1].lmk_id # -1
                /\ ~isBadTriangle(polygon, a.pose, a.min_ratio, a.min_elongation_ratio,
                                  a.max_triangle_side)
    IN  IF lmk_id = -1 THEN [st EXCEPT !.aborted = TRUE]
        ELSE populate3dMeshLoopLeaking(
               [st EXCEPT !.polygon = polygon,
                          !.mesh = IF good THEN addPolygonToMesh(st.mesh, polygon)
                                   ELSE st.mesh],
               i, j + 1, mesh_2d, points_with_id_map, frame, a)

\* Mutant: a pixel without a landmark makes the loop skip the triangle.
RECURSIVE populate3dMeshLoopSkipping(_, _, _, _, _, _, _)
populate3dMeshLoopSkipping(st, i, j, mesh_2d, points_with_id_map, frame, a) ==
  IF i > Len(mesh_2d) THEN st
  ELSE IF j > 3 THEN
    populate3dMeshLoopSkipping(st, i + 1, 1, mesh_2d, points_with_id_map, frame, a)
  ELSE
    LET lmk_id == findLmkIdFromPixel(frame, mesh_2d[i][j]) IN
    IF lmk_id \in DOMAIN points_with_id_map THEN
      LET polygon == [st.polygon EXCEPT
                        ![j] = Vertex(lmk_id, ToFloat3(points_with_id_map[lmk_id]))]
          good == j = 3 /\ ~isBadTriangle(polygon, a.pose, a.min_ratio,
                                          a.min_elongation_ratio,
                                          a.max_triangle_side)
      IN  populate3dMeshLoopSkipping(
            [st EXCEPT !.polygon = polygon,
                       !.mesh = IF good THEN addPolygonToMesh(st.mesh, polygon)
                                ELSE st.mesh],
            i, j + 1, mesh_2d, points_with_id_map, frame, a)
    ELSE
      populate3dMeshLoopSkipping(st, i + 1, 1, mesh_2d, points_with_id_map, frame, a)

\* The loops of populate3dMesh: triangle i, vertex j.  st carries the mesh,
\* the polygon buffer declared outside the loops, and whether CHECK_NE fired.
RECURSIVE populate3dMeshLoop(_, _, _, _, _, _, _)
populate3dMeshLoop(st, i, j, mesh_2d, points_with_id_map, frame, a) ==
  IF i > Len(mesh_2d) THEN st
  ELSE IF j > 3 THEN
    populate3dMeshLoop(st, i + 1, 1, mesh_2d, points_with_id_map, frame, a)
  ELSE
    LET lmk_id == findLmkIdFromPixel(frame, mesh_2d[i][j]) IN
    IF lmk_id = -1 THEN [st EXCEPT !.aborted = TRUE]
    ELSE IF lmk_id \in DOMAIN points_with_id_map THEN
      LET lmk == ToFloat3(points_with_id_map[lmk_id])
          polygon == [st.polygon EXCEPT ![j] = Vertex(lmk_id, lmk)]
          good == j = 3 /\ ~isBadTriangle(polygon, a.pose, a.min_ratio,
                                          a.min_elongation_ratio,
                                          a.max_triangle_side)
      IN  populate3dMeshLoop(
            [st EXCEPT !.polygon = polygon,
                       !.mesh = IF good THEN addPolygonToMesh(st.mesh, polygon)
                                ELSE st.mesh],
            i, j + 1, mesh_2d, points_with_id_map, frame, a)
    ELSE
      \* break: the landmark is not in points_with_id_map.
      populate3dMeshLoop(st, i + 1, 1, mesh_2d, points_with_id_map, frame, a)

\* Mutant: the polygons of the frames before are thrown away first.
populate3dMeshFromScratch(mesh, mesh_2d, points_with_id_map, frame, a) ==
  populate3dMeshLoop(
    [mesh |-> EmptyMesh, polygon |-> <<DefaultVertex, DefaultVertex, DefaultVertex>>,
     aborted |-> FALSE],
    1, 1, mesh_2d, points_with_id_map, frame, a)

populate3dMesh(mesh, mesh_2d, points_with_id_map, frame, a) ==
  populate3dMeshLoop(
    [mesh |-> mesh, polygon |-> <<DefaultVertex, DefaultVertex, DefaultVertex>>,
     aborted |-> FALSE],
    1, 1, mesh_2d, points_with_id_map, frame, a)

\* Mutant: a polygon is saved whether or not its landmarks are in the table.
RECURSIVE RefreshVerticesKeepAll(_, _, _, _)
RefreshVerticesKeepAll(polygon, j, points_with_id_map, reduce_mesh_to_time_horizon) ==
  IF j > 3 THEN [polygon |-> polygon, save_polygon |-> TRUE]
  ELSE IF polygon[j].lmk_id \notin DOMAIN points_with_id_map THEN
    RefreshVerticesKeepAll(polygon, j + 1, points_with_id_map,
                           reduce_mesh_to_time_horizon)
  ELSE
    RefreshVerticesKeepAll(
      [polygon EXCEPT ![j].pos = ToFloat3(points_with_id_map[polygon[j].lmk_id])],
      j + 1, points_with_id_map, reduce_mesh_to_time_horizon)

\* Mutant: the vertices stay where they were.
RECURSIVE RefreshVerticesStale(_, _, _, _)
RefreshVerticesStale(polygon, j, points_with_id_map, reduce_mesh_to_time_horizon) ==
  IF j > 3 THEN [polygon |-> polygon, save_polygon |-> TRUE]
  ELSE IF polygon[j].lmk_id \notin DOMAIN points_with_id_map
          /\ reduce_mesh_to_time_horizon
    THEN [polygon |-> polygon, save_polygon |-> FALSE]
  ELSE RefreshVerticesStale(polygon, j + 1, points_with_id_map,
                            reduce_mesh_to_time_horizon)

\* The vertex loop of updatePolygonMeshToTimeHorizon on one polygon, from
\* vertex j on.
RECURSIVE RefreshVertices(_, _, _, _)
RefreshVertices(polygon, j, points_with_id_map, reduce_mesh_to_time_horizon) ==
  IF j > 3 THEN [polygon |-> polygon, save_polygon |-> TRUE]
  ELSE IF polygon[j].lmk_id \notin DOMAIN points_with_id_map THEN
    IF reduce_mesh_to_time_horizon
      THEN [polygon |-> polygon, save_polygon |-> FALSE]
      ELSE RefreshVertices(polygon, j + 1, points_with_id_map,
                           reduce_mesh_to_time_horizon)
  ELSE
    RefreshVertices(
      [polygon EXCEPT ![j].pos = ToFloat3(points_with_id_map[polygon[j].lmk_id])],
      j + 1, points_with_id_map, reduce_mesh_to_time_horizon)

RECURSIVE TimeHorizonLoop(_, _, _, _, _, _)
TimeHorizonLoop(mesh_output, mesh, i, points_with_id_map, a, reduce_mesh_to_time_horizon) ==
  IF i > getNumberOfPolygons(mesh) THEN mesh_output
  ELSE
    LET r == RefreshVertices(getPolygon(mesh, i), 1, points_with_id_map,
                             reduce_mesh_to_time_horizon)
        keep == r.save_polygon /\
                ~isBadTriangle(r.polygon, a.pose, a.min_ratio, <<-1, 1>>,
                               a.max_triangle_side)
    IN  TimeHorizonLoop(
          IF keep THEN addPolygonToMesh(mesh_output, r.polygon) ELSE mesh_output,
          mesh, i + 1, points_with_id_map, a, reduce_mesh_to_time_horizon)

\* Mutant: the polygons to keep are added to the live mesh as the loop goes.
updatePolygonMeshInPlace(mesh, points_with_id_map, a, reduce_mesh_to_time_horizon) ==
  TimeHorizonLoop(mesh, mesh, 1, points_with_id_map, a,
                  reduce_mesh_to_time_horizon)

updatePolygonMeshToTimeHorizon(mesh, points_with_id_map, a, reduce_mesh_to_time_horizon) ==
  TimeHorizonLoop(EmptyMesh, mesh, 1, points_with_id_map, a,
                  reduce_mesh_to_time_horizon)

populate3dMeshTimeHorizon(mesh, mesh_2d, points_with_id_map, frame, a, flags) ==
  LET st == populate3dMesh(mesh, mesh_2d, points_with_id_map, frame, a) IN
  IF st.aborted THEN [mesh |-> st.mesh, aborted |-> TRUE]
  ELSE [mesh |-> updatePolygonMeshToTimeHorizon(
                   st.mesh, points_with_id_map, a,
                   flags.reduce_mesh_to_time_horizon),
        aborted |-> FALSE]

\* Mutant: the point is stored with operator[], which replaces an existing one.
RECURSIVE appendStereoPointsOverriding(_, _, _, _)
appendStereoPointsOverriding(frame, leftCameraPose, points_with_id_stereo, i) ==
  IF i > Len(frame.landmarks_) THEN points_with_id_stereo
  ELSE
    LET id == frame.landmarks_[i]
        p_i_global == transform_from(leftCameraPose, frame.keypoints_3d_[i])
        next ==
          IF frame.right_keypoints_status_[i] = "VALID" /\ id # -1
            THEN [k \in (DOMAIN points_with_id_stereo) \cup {id} |->
                    IF k = id THEN p_i_global ELSE points_with_id_stereo[k]]
            ELSE points_with_id_stereo
    IN  appendStereoPointsOverriding(frame, leftCameraPose, next, i + 1)

\* map::insert of keypoint i and the ones after it: an existing key is kept.
RECURSIVE appendNonVioStereoPoints(_, _, _, _)
appendNonVioStereoPoints(frame, leftCameraPose, points_with_id_stereo, i) ==
  IF i > Len(frame.landmarks_) THEN points_with_id_stereo
  ELSE
    LET id == frame.landmarks_[i]
        p_i_global == transform_from(leftCameraPose, frame.keypoints_3d_[i])
        next ==
          IF frame.right_keypoints_status_[i] = "VALID" /\ id # -1
             /\ id \notin DOMAIN points_with_id_stereo
            THEN [k \in (DOMAIN points_with_id_stereo) \cup {id} |->
                    IF k = id THEN p_i_global ELSE points_with_id_stereo[k]]
            ELSE points_with_id_stereo
    IN  appendNonVioStereoPoints(frame, leftCameraPose, next, i + 1)

\* The table the mesh is built from: points_with_id_all in updateMesh3D.
PointsWithIdAll(points_with_id_VIO, stereoFrame, leftCameraPose, flags) ==
  IF flags.add_extra_lmks_from_stereo
    THEN appendNonVioStereoPoints(stereoFrame, leftCameraPose,
                                  points_with_id_VIO, 1)
    ELSE points_with_id_VIO

Thresholds(flags, leftCameraPose) ==
  [pose |-> leftCameraPose,
   min_ratio |-> flags.min_ratio_btw_largest_smallest_side,
   min_elongation_ratio |-> flags.min_elongation_ratio,
   max_triangle_side |-> flags.max_triangle_side]

\* mesh_2d is the filtered 2D triangulation the stereo frame supplies.
updateMesh3D(mesh, points_with_id_VIO, stereoFrame, leftCameraPose, mesh_2d, flags) ==
  populate3dMeshTimeHorizon(
    mesh, mesh_2d,
    PointsWithIdAll(points_with_id_VIO, stereoFrame, leftCameraPose, flags),
    stereoFrame, Thresholds(flags, leftCameraPose), flags)

(***************************************************************************)
(* Normals and planes                                                      *)
(*                                                                         *)
(* A unit vector is kept as the shortest integer vector N along it (the    *)
(* vector itself is N / |N|), an angle as the integer vector <<x, y>> it   *)
(* is the atan2 of, a plane distance and a tolerance as a rational         *)
(* <<n, d>> with d > 0, and the dot product of a point with a unit vector  *)
(* as [num, nsq] for num / sqrt(nsq).  Comparisons are made on squares.    *)
(* The flag menus keep the tolerances inside the ranges the CHECKs of the  *)
(* predicates demand (0 < normal tolerance < 1, distance tolerance >= 0).  *)
(***************************************************************************)
RECURSIVE Gcd(_, _)
Gcd(a, b) == IF b = 0 THEN a ELSE Gcd(b, a % b)
Cross(u, v) ==
  <<u[2] * v[3] - u[3] * v[2], u[3] * v[1] - u[1] * v[3], u[1] * v[2] - u[2] * v[1]>>
\* v / |v| for v # 0.
Unit(v) ==
  LET g == Gcd(Abs(v[1]), Gcd(Abs(v[2]), Abs(v[3])))
  IN  <<v[1] \div g, v[2] \div g, v[3] \div g>>
Neg(v) == <<-v[1], -v[2], -v[3]>>
\* x * sqrt(s) <= y and x * sqrt(s) >= y, for integers x, y and s > 0.
RootLeq(x, s, y) ==
  IF x <= 0 THEN y >= 0 \/ x * x * s >= y * y ELSE y >= 0 /\ x * x * s <= y * y
RootGeq(x, s, y) ==
  IF x >= 0 THEN y <= 0 \/ x * x * s >= y * y ELSE y <= 0 /\ x * x * s <= y * y
\* Rationals.
RatLeq(a, b) == a[1] * b[2] <= b[1] * a[2]
RatLt(a, b) == a[1] * b[2] < b[1] * a[2]
RatAbsDiff(a, b) == <<Abs(a[1] * b[2] - b[1] * a[2]), a[2] * b[2]>>
RatNeg(a) == <<-a[1], a[2]>>

\* [abort: CHECK_GT fired; ok: the return value; normal: *normal].
\* |cos| >= 1 - epsilon with epsilon = 1e-3 is |v21 x v31|^2 * 10^6 <=
\* 1999 * |v21|^2 * |v31|^2, written so that no product leaves 32 bits.
calculateNormal(p1, p2, p3) ==
  LET v21 == Sub(p2, p1)
      v31 == Sub(p3, p1)
      c == Cross(v21, v31)
      ab == NormSq(v21) * NormSq(v31)
  IN  IF NormSq(v21) = 0 \/ NormSq(v31) = 0
        THEN [abort |-> TRUE, ok |-> FALSE, normal |-> <<0, 0, 0>>]
      ELSE IF NormSq(c) < 2000 /\ NormSq(c) * 1000000 <= 1999 * ab
        THEN [abort |-> FALSE, ok |-> FALSE, normal |-> <<0, 0, 0>>]
      ELSE [abort |-> FALSE, ok |-> TRUE, normal |-> Unit(c)]

\* |normal . axis| > 1 - tolerance
isNormalAroundAxis(axis, normal, tolerance) ==
  LET d == Dot(normal, axis)
      one_minus == tolerance[2] - tolerance[1]
  IN  d * d * tolerance[2] * tolerance[2]
        > one_minus * one_minus * NormSq(normal) * NormSq(axis)

\* Mutant: the dot product is compared without its norm.
isNormalBelowAxis(axis, normal, tolerance) ==
  RootGeq(tolerance[1], NormSq(normal) * NormSq(axis), Dot(normal, axis) * tolerance[2])
    /\ ~RootLeq(tolerance[1], NormSq(normal) * NormSq(axis), Dot(normal, axis) * tolerance[2])

\* |normal . axis| < tolerance
isNormalPerpendicularToAxis(axis, normal, tolerance) ==
  LET d == Dot(normal, axis)
  IN  d * d * tolerance[2] * tolerance[2]
        < tolerance[1] * tolerance[1] * NormSq(normal) * NormSq(axis)

\* Mutant: the difference is compared without its absolute value.
isPointBelowDistanceFromPlane(point, plane_distance, plane_normal, distance_tolerance) ==
  LET pn == Dot(point, plane_normal) * plane_distance[2] * distance_tolerance[2]
      lo == plane_distance[1] * distance_tolerance[2]
              - distance_tolerance[1] * plane_distance[2]
  IN  RootLeq(lo, NormSq(plane_normal), pn)

\* |plane_distance - point . plane_normal| <= distance_tolerance
isPointAtDistanceFromPlane(point, plane_distance, plane_normal, distance_tolerance) ==
  LET pn == Dot(point, plane_normal) * plane_distance[2] * distance_tolerance[2]
      lo == plane_distance[1] * distance_tolerance[2]
              - distance_tolerance[1] * plane_distance[2]
      hi == plane_distance[1] * distance_tolerance[2]
              + distance_tolerance[1] * plane_distance[2]
  IN  RootLeq(lo, NormSq(plane_normal), pn) /\ RootGeq(hi, NormSq(plane_normal), pn)

RECURSIVE PolygonAtDistanceLoop(_, _, _, _, _)
PolygonAtDistanceLoop(polygon, j, plane_distance, plane_normal, distance_tolerance) ==
  IF j > Len(polygon) THEN TRUE
  ELSE IF ~isPointAtDistanceFromPlane(polygon[j].pos, plane_distance, plane_normal,
                                      distance_tolerance)
    THEN FALSE
  ELSE PolygonAtDistanceLoop(polygon, j + 1, plane_distance, plane_normal,
                             distance_tolerance)
isPolygonAtDistanceFromPlane(polygon, plane_distance, plane_normal, distance_tolerance) ==
  PolygonAtDistanceLoop(polygon, 1, plane_distance, plane_normal, distance_tolerance)

\* atan2 of the projection of the normal on the equator, as <<x, y>>;
\* <<0, 0>> is the projection that the CHECK of getLongitude rejects.
getLongitude(triangle_normal, vertical) ==
  LET k == Dot(vertical, triangle_normal)
      equatorial_proj == Sub(triangle_normal, <<k * vertical[1], k * vertical[2], k * vertical[3]>>)
  IN  <<equatorial_proj[1], equatorial_proj[2]>>
\* theta < 0 for theta = atan2(y, x) in (-pi, pi].
ThetaNegative(theta) == theta[2] < 0

\* Plane: symbol index, unit normal, distance, landmark ids, triangle cluster.
Plane(plane_symbol, normal, distance, lmk_ids, cluster_id) ==
  [plane_symbol |-> plane_symbol, normal_ |-> normal, distance_ |-> distance,
   lmk_ids_ |-> lmk_ids,
   triangle_cluster_ |-> [cluster_id_ |-> cluster_id, triangle_ids_ |-> <<>>]]

\* Plane::geometricEqual: the normals within the tolerance of each other and
\* the distances too, or the same with one plane flipped.
isNormalStrictlyEqual(lhs, rhs, tolerance) ==
  Dot(lhs, rhs) > 0 /\ isNormalAroundAxis(lhs, rhs, tolerance)
isPlaneDistanceStrictlyEqual(lhs, rhs, tolerance) ==
  RatLeq(RatAbsDiff(lhs, rhs), tolerance)
geometricEqual(plane, rhs, normal_tolerance, distance_tolerance) ==
  \/ /\ isNormalStrictlyEqual(rhs.normal_, plane.normal_, normal_tolerance)
     /\ isPlaneDistanceStrictlyEqual(rhs.distance_, plane.distance_, distance_tolerance)
  \/ /\ isNormalStrictlyEqual(rhs.normal_, Neg(plane.normal_), normal_tolerance)
     /\ isPlaneDistanceStrictlyEqual(rhs.distance_, RatNeg(plane.distance_), distance_tolerance)

(***************************************************************************)
(* Polygons on planes                                                      *)
(***************************************************************************)
InSeq(x, s) == \E k \in 1..Len(s) : s[k] = x

\* Vertex j of the polygon and the ones after it.
RECURSIVE appendLmkIdsOfPolygon(_, _, _, _, _)
appendLmkIdsOfPolygon(polygon, j, lmk_ids, points_with_id_vio, flags) ==
  IF j > Len(polygon) THEN lmk_ids
  ELSE
    LET id == polygon[j].lmk_id
        next ==
          IF InSeq(id, lmk_ids) THEN lmk_ids
          ELSE IF flags.add_extra_lmks_from_stereo
            THEN IF id \in DOMAIN points_with_id_vio
                   THEN Append(lmk_ids, id) ELSE lmk_ids
          ELSE Append(lmk_ids, id)
    IN  appendLmkIdsOfPolygon(polygon, j + 1, next, points_with_id_vio, flags)

\* Triangle id k of the cluster and the ones after it.  An index the mesh does
\* not hold fails the CHECK on getPolygon.
RECURSIVE extractLmkIdsLoop(_, _, _, _, _, _)
extractLmkIdsLoop(mesh, triangle_ids, k, lmk_ids, points_with_id_vio, flags) ==
  IF k > Len(triangle_ids) THEN [lmk_ids |-> lmk_ids, abort |-> FALSE]
  ELSE IF triangle_ids[k] >= getNumberOfPolygons(mesh)
    THEN [lmk_ids |-> lmk_ids, abort |-> TRUE]
  ELSE extractLmkIdsLoop(
         mesh, triangle_ids, k + 1,
         appendLmkIdsOfPolygon(getPolygon(mesh, triangle_ids[k] + 1), 1, lmk_ids,
                               points_with_id_vio, flags),
         points_with_id_vio, flags)

\* Mutant: the output list is not emptied first.
extractLmkIdsOntoOutput(mesh, triangle_cluster, points_with_id_vio, lmk_ids, flags) ==
  extractLmkIdsLoop(mesh, triangle_cluster.triangle_ids_, 1, lmk_ids,
                    points_with_id_vio, flags)

extractLmkIdsFromTriangleCluster(mesh, triangle_cluster, points_with_id_vio, lmk_ids, flags) ==
  extractLmkIdsLoop(mesh, triangle_cluster.triangle_ids_, 1, <<>>,
                    points_with_id_vio, flags)

\* Cluster c of the vector and the ones after it; each goes through
\* extractLmkIdsFromTriangleCluster with the same output list.
RECURSIVE extractLmkIdsFromVectorLoop(_, _, _, _, _, _)
extractLmkIdsFromVectorLoop(mesh, triangle_clusters, c, lmk_ids, points_with_id_vio, flags) ==
  IF c > Len(triangle_clusters) THEN [lmk_ids |-> lmk_ids, abort |-> FALSE]
  ELSE
    LET Rest(r) ==
          IF r.abort THEN r
          ELSE extractLmkIdsFromVectorLoop(mesh, triangle_clusters, c + 1, r.lmk_ids,
                                           points_with_id_vio, flags)
    IN  Rest(extractLmkIdsFromTriangleCluster(mesh, triangle_clusters[c],
                                              points_with_id_vio, lmk_ids, flags))

extractLmkIdsFromVectorOfTriangleClusters(mesh, triangle_clusters, points_with_id_vio, lmk_ids, flags) ==
  extractLmkIdsFromVectorLoop(mesh, triangle_clusters, 1, <<>>, points_with_id_vio, flags)

IsPolygonOnPlane(seed_plane, polygon, triangle_normal, normal_tolerance, distance_tolerance) ==
  /\ isNormalAroundAxis(seed_plane.normal_, triangle_normal, normal_tolerance)
  /\ isPolygonAtDistanceFromPlane(polygon, seed_plane.distance_, seed_plane.normal_,
                                  distance_tolerance)

\* Mutant: the polygons are numbered from 1.
updatePlanesLmkIdsFromPolygonCountingFromOne(seed_planes, polygon, triangle_id, triangle_normal, normal_tolerance, distance_tolerance, points_with_id_vio, flags) ==
  LET on(k) == IsPolygonOnPlane(seed_planes[k], polygon, triangle_normal,
                                normal_tolerance, distance_tolerance)
  IN  [seed_planes |->
         [k \in 1..Len(seed_planes) |->
            IF on(k)
              THEN [seed_planes[k] EXCEPT
                      !.lmk_ids_ = appendLmkIdsOfPolygon(polygon, 1, @,
                                                         points_with_id_vio, flags),
                      !.triangle_cluster_.triangle_ids_ = Append(@, triangle_id + 1)]
              ELSE seed_planes[k]],
       is_polygon_on_a_plane |-> \E k \in 1..Len(seed_planes) : on(k)]

\* [seed_planes: the planes as the call leaves them; is_polygon_on_a_plane].
updatePlanesLmkIdsFromPolygon(seed_planes, polygon, triangle_id, triangle_normal, normal_tolerance, distance_tolerance, points_with_id_vio, flags) ==
  LET on(k) == IsPolygonOnPlane(seed_planes[k], polygon, triangle_normal,
                                normal_tolerance, distance_tolerance)
  IN  [seed_planes |->
         [k \in 1..Len(seed_planes) |->
            IF on(k)
              THEN [seed_planes[k] EXCEPT
                      !.lmk_ids_ = appendLmkIdsOfPolygon(polygon, 1, @,
                                                         points_with_id_vio, flags),
                      !.triangle_cluster_.triangle_ids_ = Append(@, triangle_id)]
              ELSE seed_planes[k]],
       is_polygon_on_a_plane |-> \E k \in 1..Len(seed_planes) : on(k)]

\* Polygon i (counted from 0) and the ones after it.
RECURSIVE updatePlanesLmkIdsFromMesh(_, _, _, _, _, _, _)
updatePlanesLmkIdsFromMesh(mesh, planes, i, normal_tolerance, distance_tolerance, points_with_id_vio, flags) ==
  IF i >= getNumberOfPolygons(mesh) THEN [planes |-> planes, abort |-> FALSE]
  ELSE
    LET polygon == getPolygon(mesh, i + 1)
        n == calculateNormal(polygon[1].pos, polygon[2].pos, polygon[3].pos)
    IN  IF n.abort THEN [planes |-> planes, abort |-> TRUE]
        ELSE updatePlanesLmkIdsFromMesh(
               mesh,
               IF n.ok
                 THEN updatePlanesLmkIdsFromPolygon(
                        planes, polygon, i, n.normal, normal_tolerance,
                        distance_tolerance, points_with_id_vio, flags).seed_planes
                 ELSE planes,
               i + 1, normal_tolerance, distance_tolerance, points_with_id_vio, flags)

Vertical == <<0, 0, 1>>

\* Mutant: the polygons on a seed plane are used whatever the flag says.
RECURSIVE segmentPlanesInMeshLoopUsingAll(_, _, _, _, _)
segmentPlanesInMeshLoopUsingAll(st, mesh, i, points_with_id_vio, flags) ==
  IF i >= getNumberOfPolygons(mesh) THEN st
  ELSE
    LET polygon == getPolygon(mesh, i + 1)
        p1 == polygon[1].pos
        p2 == polygon[2].pos
        p3 == polygon[3].pos
        n == calculateNormal(p1, p2, p3)
        triangle_normal == n.normal
        u == updatePlanesLmkIdsFromPolygon(
               st.seed_planes, polygon, i, triangle_normal,
               flags.normal_tolerance_polygon_plane_association,
               flags.distance_tolerance_polygon_plane_association,
               points_with_id_vio, flags)
        use == TRUE
        horizontal ==
          use /\ isNormalAroundAxis(Vertical, triangle_normal,
                                    flags.normal_tolerance_horizontal_surface)
        wall ==
          use /\ isNormalPerpendicularToAxis(Vertical, triangle_normal,
                                             flags.normal_tolerance_walls)
        theta == getLongitude(triangle_normal, Vertical)
        distance == [num |-> Dot(p1, triangle_normal), nsq |-> NormSq(triangle_normal)]
        sample ==
          IF ThetaNegative(theta)
            THEN [theta |-> <<-theta[1], -theta[2]>>,
                  distance |-> [distance EXCEPT !.num = -distance.num]]
            ELSE [theta |-> theta, distance |-> distance]
    IN  IF n.abort THEN [st EXCEPT !.abort = TRUE]
        ELSE IF ~n.ok THEN segmentPlanesInMeshLoopUsingAll(st, mesh, i + 1, points_with_id_vio, flags)
        ELSE IF wall /\ theta = <<0, 0>>
          THEN [st EXCEPT !.seed_planes = u.seed_planes,
                          !.walls = Append(@, sample), !.abort = TRUE]
        ELSE segmentPlanesInMeshLoopUsingAll(
               [seed_planes |-> u.seed_planes,
                z_components |->
                  IF horizontal THEN st.z_components \o <<p1[3], p2[3], p3[3]>>
                  ELSE st.z_components,
                walls |-> IF wall THEN Append(st.walls, sample) ELSE st.walls,
                abort |-> FALSE],
               mesh, i + 1, points_with_id_vio, flags)

\* The loop of segmentPlanesInMesh over the polygons, from polygon i (counted
\* from 0) on.  st: seed_planes, z_components, walls, abort.  When the CHECK
\* of getLongitude on the equatorial projection fires, the walk stops with
\* the offending sample as the last of walls.
RECURSIVE segmentPlanesInMeshLoop(_, _, _, _, _)
segmentPlanesInMeshLoop(st, mesh, i, points_with_id_vio, flags) ==
  IF i >= getNumberOfPolygons(mesh) THEN st
  ELSE
    LET polygon == getPolygon(mesh, i + 1)
        p1 == polygon[1].pos
        p2 == polygon[2].pos
        p3 == polygon[3].pos
        n == calculateNormal(p1, p2, p3)
        triangle_normal == n.normal
        u == updatePlanesLmkIdsFromPolygon(
               st.seed_planes, polygon, i, triangle_normal,
               flags.normal_tolerance_polygon_plane_association,
               flags.distance_tolerance_polygon_plane_association,
               points_with_id_vio, flags)
        use == IF flags.only_use_non_clustered_points
                 THEN ~u.is_polygon_on_a_plane ELSE TRUE
        horizontal ==
          use /\ isNormalAroundAxis(Vertical, triangle_normal,
                                    flags.normal_tolerance_horizontal_surface)
        wall ==
          use /\ isNormalPerpendicularToAxis(Vertical, triangle_normal,
                                             flags.normal_tolerance_walls)
        theta == getLongitude(triangle_normal, Vertical)
        distance == [num |-> Dot(p1, triangle_normal), nsq |-> NormSq(triangle_normal)]
        sample ==
          IF ThetaNegative(theta)
            THEN [theta |-> <<-theta[1], -theta[2]>>,
                  distance |-> [distance EXCEPT !.num = -distance.num]]
            ELSE [theta |-> theta, distance |-> distance]
    IN  IF n.abort THEN [st EXCEPT !.abort = TRUE]
        ELSE IF ~n.ok THEN segmentPlanesInMeshLoop(st, mesh, i + 1, points_with_id_vio, flags)
        ELSE IF wall /\ theta = <<0, 0>>
          THEN [st EXCEPT !.seed_planes = u.seed_planes,
                          !.walls = Append(@, sample), !.abort = TRUE]
        ELSE segmentPlanesInMeshLoop(
               [seed_planes |-> u.seed_planes,
                z_components |->
                  IF horizontal THEN st.z_components \o <<p1[3], p2[3], p3[3]>>
                  ELSE st.z_components,
                walls |-> IF wall THEN Append(st.walls, sample) ELSE st.walls,
                abort |-> FALSE],
               mesh, i + 1, points_with_id_vio, flags)

(***************************************************************************)
(* Histograms                                                              *)
(*                                                                         *)
(* The ranges are integers and a whole number of grid units wide per bin.  *)
(* The Gaussian kernels are of size 1 (no smoothing).  The theta histogram *)
(* has two bins over [0, pi): the angles of the first quadrant and those   *)
(* of the second, with centres pi/4 and 3pi/4.                             *)
(***************************************************************************)
PeakInfo(pos, support, value) == [pos_ |-> pos, support_ |-> support, value_ |-> value]
ZBinWidth(flags) ==
  (flags.z_histogram_max_range - flags.z_histogram_min_range) \div flags.z_histogram_bins
\* The bin of a sample, -1 for a sample outside [min, max).
ZBin(z, flags) ==
  IF z >= flags.z_histogram_min_range /\ z < flags.z_histogram_max_range
    THEN (z - flags.z_histogram_min_range) \div ZBinWidth(flags)
    ELSE -1
ZBinCenter(pos, flags) ==
  <<2 * (flags.z_histogram_min_range + pos * ZBinWidth(flags)) + ZBinWidth(flags), 2>>
\* Histogram::calculateHistogram, one dimension: votes per bin.
calculateHistogram1D(z_components, flags) ==
  [b \in 0..(flags.z_histogram_bins - 1) |->
     Cardinality({k \in 1..Len(z_components) : ZBin(z_components[k], flags) = b})]

\* Histogram::getLocalMaximum1D: the window slides over the bins from
\* position s on; each position reports its first fullest bin, if that bin has
\* the support asked for and peak_per times the votes of the fullest bin.
RECURSIVE LocalMaximum1DLoop(_, _, _, _)
LocalMaximum1DLoop(hist, s, peaks, flags) ==
  IF s + flags.z_histogram_window_size > flags.z_histogram_bins THEN peaks
  ELSE
    LET window == s..(s + flags.z_histogram_window_size - 1)
        m == CHOOSE b \in window :
               \A c \in window : hist[c] < hist[b] \/ (hist[c] = hist[b] /\ b <= c)
        max_val == CHOOSE v \in {hist[b] : b \in DOMAIN hist} :
                     \A b \in DOMAIN hist : hist[b] <= v
        is_peak ==
          /\ hist[m] > 0
          /\ hist[m] >= flags.z_histogram_min_support
          /\ hist[m] * flags.z_histogram_peak_per[2]
               >= flags.z_histogram_peak_per[1] * max_val
    IN  LocalMaximum1DLoop(
          hist, s + 1,
          IF is_peak THEN Append(peaks, PeakInfo(m, hist[m], ZBinCenter(m, flags)))
          ELSE peaks,
          flags)
getLocalMaximum1D(hist, flags) == LocalMaximum1DLoop(hist, 0, <<>>, flags)

\* The theta bin of an angle, -1 for an angle outside [0, pi).
ThetaBin(theta) ==
  IF theta[2] > 0 THEN (IF theta[1] > 0 THEN 0 ELSE 1)
  ELSE IF theta[2] = 0 /\ theta[1] > 0 THEN 0
  ELSE -1
ThetaBinCenter(pos) == IF pos = 0 THEN <<1, 1>> ELSE <<-1, 1>>
DistanceBinWidth(flags) ==
  (flags.hist_2d_distance_range_max - flags.hist_2d_distance_range_min)
    \div flags.hist_2d_distance_bins
\* The distance bin of num / sqrt(nsq), -1 outside [min, max).
DistanceBin(d, flags) ==
  LET edge(b) == flags.hist_2d_distance_range_min + b * DistanceBinWidth(flags)
      inside == {b \in 0..(flags.hist_2d_distance_bins - 1) :
                   /\ RootLeq(edge(b), d.nsq, d.num)
                   /\ ~RootLeq(edge(b + 1), d.nsq, d.num)}
  IN  IF inside = {} THEN -1 ELSE CHOOSE b \in inside : TRUE
DistanceBinCenter(pos, flags) ==
  <<2 * (flags.hist_2d_distance_range_min + pos * DistanceBinWidth(flags))
      + DistanceBinWidth(flags), 2>>
\* Histogram::calculateHistogram, two dimensions: votes per <<theta bin,
\* distance bin>>.
calculateHistogram2D(walls, flags) ==
  [b \in (0..1) \X (0..(flags.hist_2d_distance_bins - 1)) |->
     Cardinality({k \in 1..Len(walls) :
                    /\ ThetaBin(walls[k].theta) = b[1]
                    /\ DistanceBin(walls[k].distance, flags) = b[2]})]

\* Histogram::getLocalMaximum2D: the bins with the support asked for and more
\* votes than each bin next to them, fullest first, each at
\* min_dist_btw_local_max bins or more from the ones taken before it.
RECURSIVE LocalMaximum2DLoop(_, _, _, _)
LocalMaximum2DLoop(hist, candidates, peaks, flags) ==
  LET far(b) ==
        \A k \in 1..Len(peaks) :
          Max2(Abs(peaks[k].pos_[1] - b[1]), Abs(peaks[k].pos_[2] - b[2]))
            >= flags.hist_2d_min_dist_btw_local_max
      open == {b \in candidates : far(b)}
      first(a, b) == a[1] < b[1] \/ (a[1] = b[1] /\ a[2] <= b[2])
      best == CHOOSE b \in open :
                \A c \in open : hist[c] < hist[b] \/ (hist[c] = hist[b] /\ first(b, c))
  IN  IF Len(peaks) >= flags.hist_2d_nr_of_local_max \/ open = {} THEN peaks
      ELSE LocalMaximum2DLoop(
             hist, open \ {best},
             Append(peaks, [pos_ |-> best, support_ |-> hist[best],
                            x_value_ |-> ThetaBinCenter(best[1]),
                            y_value_ |-> DistanceBinCenter(best[2], flags)]),
             flags)
getLocalMaximum2D(hist, flags) ==
  LET next_to(a, b) == a # b /\ Abs(a[1] - b[1]) <= 1 /\ Abs(a[2] - b[2]) <= 1
      candidates ==
        {b \in DOMAIN hist :
           /\ hist[b] > 0
           /\ hist[b] >= flags.hist_2d_min_support
           /\ \A c \in DOMAIN hist : next_to(b, c) => hist[c] < hist[b]}
  IN  LocalMaximum2DLoop(hist, candidates, <<>>, flags)

(***************************************************************************)
(* Segmentation of new planes                                              *)
(*                                                                         *)
(* The peak vector is its storage buf and its size: erase moves the        *)
(* elements after the position one slot down and leaves the last slot as   *)
(* it was.  An iterator is a position, counted from 1.  previous_peak_it   *)
(* is invalidated by an erase at or before it; reading through it then is  *)
(* undefined, and ub is what the build makes of it: "pointer" reads the    *)
(* slot it points at, "checked" traps.                                     *)
(***************************************************************************)
DanglingOutcomes == {"pointer", "checked"}
Erase(c, p) ==
  [c EXCEPT !.buf = [k \in 1..Len(c.buf) |->
                       IF k >= p /\ k < c.size THEN c.buf[k + 1] ELSE c.buf[k]],
            !.size = c.size - 1]
Peaks(c) == SubSeq(c.buf, 1, c.size)

\* The first loop of segmentHorizontalPlanes.  c: buf, size, i, peak_it,
\* previous_peak_it, previous_valid, previous_plane_distance (<<>> stands
\* for -DBL_MAX), abort.
RECURSIVE CleanPeaksLoop(_, _, _)
CleanPeaksLoop(c, flags, ub) ==
  IF c.abort \/ c.peak_it > c.size THEN c
  ELSE
    LET cur == c.buf[c.peak_it]
        plane_distance == cur.value_
        too_close ==
          /\ c.previous_plane_distance # <<>>
          /\ RatLt(RatAbsDiff(c.previous_plane_distance, plane_distance),
                   flags.z_histogram_min_separation)
        erase_current ==
          [Erase(c, c.peak_it) EXCEPT
             !.i = c.i - 1,
             !.previous_valid = c.previous_valid /\ c.previous_peak_it < c.peak_it]
    IN  IF c.i > 0 /\ c.i > c.size THEN [c EXCEPT !.abort = TRUE]
        ELSE IF c.i > 0 /\ cur = c.buf[c.i] THEN
          \* Repeated element, delete it.
          CleanPeaksLoop(erase_current, flags, ub)
        ELSE IF c.i > 0 /\ too_close THEN
          IF ~c.previous_valid /\ (ub = "checked" \/ c.previous_peak_it = 0)
            THEN [c EXCEPT !.abort = TRUE]
          ELSE IF c.buf[c.previous_peak_it].support_ < cur.support_ THEN
            \* Delete previous_peak.
            IF c.previous_peak_it > c.size THEN [c EXCEPT !.abort = TRUE]
            ELSE CleanPeaksLoop(
                   [Erase(c, c.previous_peak_it) EXCEPT
                      !.peak_it = c.i, !.i = c.i - 1, !.previous_valid = FALSE],
                   flags, ub)
          ELSE
            \* Delete peak_it.
            CleanPeaksLoop(erase_current, flags, ub)
        ELSE
          CleanPeaksLoop(
            [c EXCEPT !.previous_peak_it = c.peak_it, !.previous_valid = TRUE,
                      !.previous_plane_distance = plane_distance,
                      !.peak_it = c.peak_it + 1, !.i = c.i + 1],
            flags, ub)
CleanPeaks(peaks, flags, ub) ==
  CleanPeaksLoop(
    [buf |-> peaks, size |-> Len(peaks), i |-> 0, peak_it |-> 1,
     previous_peak_it |-> 0, previous_valid |-> FALSE,
     previous_plane_distance |-> <<>>, abort |-> FALSE],
    flags, ub)

RemoveAt(s, k) == SubSeq(s, 1, k - 1) \o SubSeq(s, k + 1, Len(s))
\* std::max_element under PeakInfo::operator<: the first of the peaks with
\* the largest support.
max_element(peaks) ==
  CHOOSE k \in 1..Len(peaks) :
    \A j \in 1..Len(peaks) :
      peaks[j].support_ < peaks[k].support_
        \/ (peaks[j].support_ = peaks[k].support_ /\ k <= j)

\* Mutant: the peaks are taken in the order of the list.
RECURSIVE SelectPeaksLoopInListOrder(_, _, _, _, _)
SelectPeaksLoopInListOrder(st, peaks, peak_nr, normal, flags) ==
  IF peak_nr >= flags.z_histogram_max_number_of_peaks_to_select \/ Len(peaks) = 0
    THEN st
  ELSE
    SelectPeaksLoopInListOrder(
      [planes |-> Append(st.planes,
                         Plane(st.plane_id, normal, peaks[1].value_, <<>>, 2)),
       plane_id |-> st.plane_id + 1],
      RemoveAt(peaks, 1), peak_nr + 1, normal, flags)

\* The second loop of segmentHorizontalPlanes.  st: planes, plane_id.
RECURSIVE SelectPeaksLoop(_, _, _, _, _)
SelectPeaksLoop(st, peaks, peak_nr, normal, flags) ==
  IF peak_nr >= flags.z_histogram_max_number_of_peaks_to_select \/ Len(peaks) = 0
    THEN st
  ELSE
    LET it == max_element(peaks) IN
    SelectPeaksLoop(
      [planes |-> Append(st.planes,
                         Plane(st.plane_id, normal, peaks[it].value_, <<>>, 2)),
       plane_id |-> st.plane_id + 1],
      RemoveAt(peaks, it), peak_nr + 1, normal, flags)

\* Mutant: the planes are numbered from 0 in every call.
segmentHorizontalPlanesFromZero(horizontal_planes, plane_id, normal, z_components, flags, ub) ==
  LET peaks == getLocalMaximum1D(calculateHistogram1D(z_components, flags), flags)
      c == CleanPeaks(peaks, flags, ub)
      st == SelectPeaksLoop([planes |-> horizontal_planes, plane_id |-> 0],
                            Peaks(c), 0, normal, flags)
  IN  IF c.abort
        THEN [planes |-> horizontal_planes, plane_id |-> plane_id, abort |-> TRUE]
        ELSE [planes |-> st.planes, plane_id |-> st.plane_id, abort |-> FALSE]

\* [planes, plane_id, abort]
segmentHorizontalPlanes(horizontal_planes, plane_id, normal, z_components, flags, ub) ==
  LET peaks == getLocalMaximum1D(calculateHistogram1D(z_components, flags), flags)
      c == CleanPeaks(peaks, flags, ub)
      st == SelectPeaksLoop([planes |-> horizontal_planes, plane_id |-> plane_id],
                            Peaks(c), 0, normal, flags)
  IN  IF c.abort
        THEN [planes |-> horizontal_planes, plane_id |-> plane_id, abort |-> TRUE]
        ELSE [planes |-> st.planes, plane_id |-> st.plane_id, abort |-> FALSE]

\* Peak k of peaks2 and the ones after it.  st: planes, plane_id.
RECURSIVE segmentWallsLoop(_, _, _)
segmentWallsLoop(st, peaks2, k) ==
  IF k > Len(peaks2) THEN st
  ELSE
    LET plane_theta == peaks2[k].x_value_
        plane_distance == peaks2[k].y_value_
        plane_normal == Unit(<<plane_theta[1], plane_theta[2], 0>>)
    IN  segmentWallsLoop(
          [planes |-> Append(st.planes,
                             Plane(st.plane_id, plane_normal, plane_distance, <<>>, 1)),
           plane_id |-> st.plane_id + 1],
          peaks2, k + 1)
segmentWalls(wall_planes, plane_id, walls, flags) ==
  segmentWallsLoop([planes |-> wall_planes, plane_id |-> plane_id],
                   getLocalMaximum2D(calculateHistogram2D(walls, flags), flags), 1)

\* Mutant: the counter handed back is the one segmentHorizontalPlanes left.
segmentNewPlanesCountingLevels(plane_id, z_components, walls, flags, ub) ==
  LET Walls(h, w) ==
        IF h.abort
          THEN [new_segmented_planes |-> h.planes, plane_id |-> h.plane_id, abort |-> TRUE]
          ELSE [new_segmented_planes |-> w.planes, plane_id |-> h.plane_id, abort |-> FALSE]
      Horizontal(h) == Walls(h, segmentWalls(h.planes, h.plane_id, walls, flags))
  IN  Horizontal(segmentHorizontalPlanes(<<>>, plane_id, Vertical, z_components, flags, ub))

\* Mutant: the walls are numbered from where the horizontal planes started.
segmentNewPlanesFromOneStart(plane_id, z_components, walls, flags, ub) ==
  LET Walls(h, w) ==
        IF h.abort
          THEN [new_segmented_planes |-> h.planes, plane_id |-> h.plane_id, abort |-> TRUE]
          ELSE [new_segmented_planes |-> w.planes,
                plane_id |-> Max2(h.plane_id, w.plane_id), abort |-> FALSE]
      Horizontal(h) == Walls(h, segmentWalls(h.planes, plane_id, walls, flags))
  IN  Horizontal(segmentHorizontalPlanes(<<>>, plane_id, Vertical, z_components, flags, ub))

\* plane_id is the function's static counter: handed in, handed back.
\* h is what segmentHorizontalPlanes leaves, w what segmentWalls leaves after it.
segmentNewPlanes(plane_id, z_components, walls, flags, ub) ==
  LET Walls(h, w) ==
        IF h.abort
          THEN [new_segmented_planes |-> h.planes, plane_id |-> h.plane_id, abort |-> TRUE]
          ELSE [new_segmented_planes |-> w.planes, plane_id |-> w.plane_id, abort |-> FALSE]
      Horizontal(h) == Walls(h, segmentWalls(h.planes, h.plane_id, walls, flags))
  IN  Horizontal(segmentHorizontalPlanes(<<>>, plane_id, Vertical, z_components, flags, ub))

\* Mutant: the seed planes keep the ids they came with.
segmentPlanesInMeshKeepingIds(mesh, seed_planes, plane_id, points_with_id_vio, flags, ub) ==
  LET cleared == seed_planes
      \* st is what the loop over the polygons leaves, s what
      \* segmentNewPlanes makes of it.
      New(st, s) ==
        IF st.abort
          THEN [seed_planes |-> st.seed_planes, new_planes |-> <<>>,
                plane_id |-> plane_id, abort |-> TRUE,
                z_components |-> st.z_components, walls |-> st.walls]
          ELSE [seed_planes |-> st.seed_planes, new_planes |-> s.new_segmented_planes,
                plane_id |-> s.plane_id, abort |-> s.abort,
                z_components |-> st.z_components, walls |-> st.walls]
      Walked(st) ==
        New(st, segmentNewPlanes(plane_id, st.z_components, st.walls, flags, ub))
  IN  Walked(segmentPlanesInMeshLoop(
               [seed_planes |-> cleared, z_components |-> <<>>, walls |-> <<>>,
                abort |-> FALSE],
               mesh, 0, points_with_id_vio, flags))

\* [seed_planes, new_planes, plane_id, abort] and, for reference, the
\* z_components and walls buffers the walk filled.
segmentPlanesInMesh(mesh, seed_planes, plane_id, points_with_id_vio, flags, ub) ==
  LET cleared ==
        [k \in 1..Len(seed_planes) |->
           [seed_planes[k] EXCEPT !.lmk_ids_ = <<>>,
                                  !.triangle_cluster_.triangle_ids_ = <<>>]]
      \* st is what the loop over the polygons leaves, s what
      \* segmentNewPlanes makes of it.
      New(st, s) ==
        IF st.abort
          THEN [seed_planes |-> st.seed_planes, new_planes |-> <<>>,
                plane_id |-> plane_id, abort |-> TRUE,
                z_components |-> st.z_components, walls |-> st.walls]
          ELSE [seed_planes |-> st.seed_planes, new_planes |-> s.new_segmented_planes,
                plane_id |-> s.plane_id, abort |-> s.abort,
                z_components |-> st.z_components, walls |-> st.walls]
      Walked(st) ==
        New(st, segmentNewPlanes(plane_id, st.z_components, st.walls, flags, ub))
  IN  Walked(segmentPlanesInMeshLoop(
               [seed_planes |-> cleared, z_components |-> <<>>, walls |-> <<>>,
                abort |-> FALSE],
               mesh, 0, points_with_id_vio, flags))

(***************************************************************************)
(* Association and clustering                                              *)
(***************************************************************************)
\* Mutant: the search stops at a match that is taken.
RECURSIVE associatePlaneLoopUntilMatch(_, _, _, _, _, _, _)
associatePlaneLoopUntilMatch(segmented_plane, planes, b, associated_plane_ids, normal_tolerance, distance_tolerance, flags) ==
  IF b > Len(planes)
    THEN [is_segmented_plane_associated |-> FALSE, backend |-> 0, double |-> FALSE,
          associated_plane_ids |-> associated_plane_ids]
  ELSE IF geometricEqual(planes[b], segmented_plane, normal_tolerance, distance_tolerance)
    THEN
      IF ~InSeq(planes[b].plane_symbol, associated_plane_ids)
        THEN [is_segmented_plane_associated |-> TRUE, backend |-> b, double |-> FALSE,
              associated_plane_ids |-> Append(associated_plane_ids, planes[b].plane_symbol)]
        ELSE [is_segmented_plane_associated |-> flags.do_double_association,
              backend |-> IF flags.do_double_association THEN b ELSE 0,
              double |-> flags.do_double_association,
              associated_plane_ids |-> associated_plane_ids]
  ELSE associatePlaneLoopUntilMatch(segmented_plane, planes, b + 1, associated_plane_ids,
                                    normal_tolerance, distance_tolerance, flags)

\* The loop over the backend planes for one segmented plane, from plane b
\* on.  The result tells whether the plane was associated, with which
\* backend plane (0: none), whether that was a double association, and the
\* associated_plane_ids it leaves.
RECURSIVE associatePlaneLoop(_, _, _, _, _, _, _)
associatePlaneLoop(segmented_plane, planes, b, associated_plane_ids, normal_tolerance, distance_tolerance, flags) ==
  IF b > Len(planes)
    THEN [is_segmented_plane_associated |-> FALSE, backend |-> 0, double |-> FALSE,
          associated_plane_ids |-> associated_plane_ids]
  ELSE IF geometricEqual(planes[b], segmented_plane, normal_tolerance, distance_tolerance)
    THEN
      LET backend_plane_index == planes[b].plane_symbol IN
      IF ~InSeq(backend_plane_index, associated_plane_ids)
        THEN [is_segmented_plane_associated |-> TRUE, backend |-> b, double |-> FALSE,
              associated_plane_ids |-> Append(associated_plane_ids, backend_plane_index)]
      ELSE IF flags.do_double_association
        THEN [is_segmented_plane_associated |-> TRUE, backend |-> b, double |-> TRUE,
              associated_plane_ids |-> associated_plane_ids]
      ELSE associatePlaneLoop(segmented_plane, planes, b + 1, associated_plane_ids,
                              normal_tolerance, distance_tolerance, flags)
  ELSE associatePlaneLoop(segmented_plane, planes, b + 1, associated_plane_ids,
                          normal_tolerance, distance_tolerance, flags)

\* The loop over the segmented planes, from plane s on.  st:
\* non_associated_planes, associated_plane_ids, associations (per segmented
\* plane, what associatePlaneLoop found).
RECURSIVE associatePlanesLoop(_, _, _, _, _, _, _)
associatePlanesLoop(st, segmented_planes, planes, s, normal_tolerance, distance_tolerance, flags) ==
  IF s > Len(segmented_planes) THEN st
  ELSE
    LET r == associatePlaneLoop(segmented_planes[s], planes, 1,
                                st.associated_plane_ids, normal_tolerance,
                                distance_tolerance, flags)
    IN  associatePlanesLoop(
          [non_associated_planes |->
             IF ~r.is_segmented_plane_associated
               THEN Append(st.non_associated_planes, segmented_planes[s])
               ELSE st.non_associated_planes,
           associated_plane_ids |-> r.associated_plane_ids,
           associations |-> Append(st.associations,
                                   [backend |-> r.backend, double |-> r.double])],
          segmented_planes, planes, s + 1, normal_tolerance, distance_tolerance, flags)

\* Mutant: the output vector is not cleared.
associatePlanesOntoOutput(segmented_planes, planes, non_associated_planes, normal_tolerance, distance_tolerance, flags) ==
  IF Len(planes) = 0
    THEN [non_associated_planes |-> segmented_planes, associated_plane_ids |-> <<>>,
          associations |-> [s \in 1..Len(segmented_planes) |->
                              [backend |-> 0, double |-> FALSE]]]
    ELSE associatePlanesLoop(
           [non_associated_planes |-> non_associated_planes,
            associated_plane_ids |-> <<>>, associations |-> <<>>],
           segmented_planes, planes, 1, normal_tolerance, distance_tolerance, flags)

\* non_associated_planes is the output vector as the caller hands it in.
associatePlanes(segmented_planes, planes, non_associated_planes, normal_tolerance, distance_tolerance, flags) ==
  LET cleared == SubSeq(non_associated_planes, 1, 0) IN
  IF Len(planes) = 0
    THEN [non_associated_planes |-> segmented_planes, associated_plane_ids |-> <<>>,
          associations |-> [s \in 1..Len(segmented_planes) |->
                              [backend |-> 0, double |-> FALSE]]]
    ELSE associatePlanesLoop(
           [non_associated_planes |-> cleared, associated_plane_ids |-> <<>>,
            associations |-> <<>>],
           segmented_planes, planes, 1, normal_tolerance, distance_tolerance, flags)

\* Mutant: every new plane is appended, associated or not.
clusterPlanesFromMeshAppendingAll(mesh, planes, plane_id, points_with_id_vio, flags, ub) ==
  LET WithUpdated(seg, new_non_associated_planes, updated) ==
        IF seg.abort
          THEN [planes |-> seg.seed_planes, plane_id |-> seg.plane_id, abort |-> TRUE,
                new_planes |-> seg.new_planes, new_non_associated_planes |-> <<>>,
                z_components |-> seg.z_components, walls |-> seg.walls]
          ELSE [planes |-> seg.seed_planes \o updated.planes, plane_id |-> seg.plane_id,
                abort |-> updated.abort, new_planes |-> seg.new_planes,
                new_non_associated_planes |-> new_non_associated_planes,
                z_components |-> seg.z_components, walls |-> seg.walls]
      WithSegmented(seg) ==
        WithUpdated(seg,
                 associatePlanes(seg.new_planes, seg.seed_planes, <<>>,
                                 flags.normal_tolerance_plane_plane_association,
                                 flags.distance_tolerance_plane_plane_association,
                                 flags).non_associated_planes,
                 updatePlanesLmkIdsFromMesh(
                   mesh, seg.new_planes, 0,
                   flags.normal_tolerance_polygon_plane_association,
                   flags.distance_tolerance_polygon_plane_association,
                   points_with_id_vio, flags))
  IN  WithSegmented(segmentPlanesInMesh(mesh, planes, plane_id, points_with_id_vio, flags, ub))

\* [planes, plane_id, abort] and, for reference, new_planes and
\* new_non_associated_planes as they were before the second walk, and the
\* z_components and walls buffers of segmentPlanesInMesh.
\* seg is what segmentPlanesInMesh leaves, new_non_associated_planes what
\* associatePlanes puts out, updated what updatePlanesLmkIdsFromMesh makes
\* of these.
clusterPlanesFromMesh(mesh, planes, plane_id, points_with_id_vio, flags, ub) ==
  LET WithUpdated(seg, new_non_associated_planes, updated) ==
        IF seg.abort
          THEN [planes |-> seg.seed_planes, plane_id |-> seg.plane_id, abort |-> TRUE,
                new_planes |-> seg.new_planes, new_non_associated_planes |-> <<>>,
                z_components |-> seg.z_components, walls |-> seg.walls]
        ELSE IF Len(new_non_associated_planes) > 0
          THEN [planes |-> seg.seed_planes \o updated.planes, plane_id |-> seg.plane_id,
                abort |-> updated.abort, new_planes |-> seg.new_planes,
                new_non_associated_planes |-> new_non_associated_planes,
                z_components |-> seg.z_components, walls |-> seg.walls]
        ELSE [planes |-> seg.seed_planes, plane_id |-> seg.plane_id, abort |-> FALSE,
              new_planes |-> seg.new_planes,
              new_non_associated_planes |-> new_non_associated_planes,
              z_components |-> seg.z_components, walls |-> seg.walls]
      WithAssociated(seg, new_non_associated_planes) ==
        WithUpdated(seg, new_non_associated_planes,
                 updatePlanesLmkIdsFromMesh(
                   mesh, new_non_associated_planes, 0,
                   flags.normal_tolerance_polygon_plane_association,
                   flags.distance_tolerance_polygon_plane_association,
                   points_with_id_vio, flags))
      WithSegmented(seg) ==
        WithAssociated(seg,
                   associatePlanes(seg.new_planes, seg.seed_planes, <<>>,
                                   flags.normal_tolerance_plane_plane_association,
                                   flags.distance_tolerance_plane_plane_association,
                                   flags).non_associated_planes)
  IN  WithSegmented(segmentPlanesInMesh(mesh, planes, plane_id, points_with_id_vio, flags, ub))

(***************************************************************************)
(* Inputs                                                                  *)
(***************************************************************************)
MaxFrames == 2

Poses == {[rot |-> "I", t |-> <<0, 0, 0>>], [rot |-> "X90", t |-> <<0, 2, 0>>]}
Half == <<1, 2>>
Disabled == {<<-1, 1>>, <<0, 1>>}

\* Landmark tables: each landmark at its base position or at another one.
LmkIds == 1..4
BasePos == <<<<0, 0, 4>>, <<4, 0, 4>>, <<0, 4, 4>>, <<4, 4, 4>>>>
MovedPos == <<<<0, 0, 4>>, <<3, 0, 4>>, <<0, 12, 4>>, <<4, 2, 4>>>>
Table(keys, moved) == [id \in keys |-> IF id \in moved THEN MovedPos[id] ELSE BasePos[id]]
Tables ==
  {Table(LmkIds, m) : m \in {{}, {2}, {3}, {4}}} \cup {Table(k, {}) : k \in {{1, 2, 3}, {1, 2}}}

\* The stereo frame: keypoint i carries landmark i, keypoint 5 carries none.
StereoFrame ==
  [landmarks_ |-> <<1, 2, 3, 4, -1>>,
   right_keypoints_status_ |-> <<"VALID", "VALID", "NO_RIGHT_RECT", "VALID", "VALID">>,
   keypoints_3d_ |-> <<<<0, 0, 4>>, <<4, 0, 4>>, <<0, 4, 4>>, <<4, 4, 6>>, <<2, 2, 4>>>>]
Triangles2D == {<<1, 2, 3>>, <<2, 3, 4>>, <<4, 5, 1>>}
Meshes2D ==
  {<<>>} \cup {<<t>> : t \in Triangles2D} \cup {<<t, u>> : t \in Triangles2D, u \in Triangles2D}

ThresholdFlags ==
  {[min_ratio_btw_largest_smallest_side |-> Half, min_elongation_ratio |-> Half, max_triangle_side |-> <<6, 1>>],
   [min_ratio_btw_largest_smallest_side |-> <<0, 1>>, min_elongation_ratio |-> <<-1, 1>>, max_triangle_side |-> <<6, 1>>],
   [min_ratio_btw_largest_smallest_side |-> <<0, 1>>, min_elongation_ratio |-> <<0, 1>>, max_triangle_side |-> <<0, 1>>]}
Flags ==
  {[add_extra_lmks_from_stereo |-> e, reduce_mesh_to_time_horizon |-> r,
    min_ratio_btw_largest_smallest_side |-> t.min_ratio_btw_largest_smallest_side,
    min_elongation_ratio |-> t.min_elongation_ratio,
    max_triangle_side |-> t.max_triangle_side] :
     e \in BOOLEAN, r \in BOOLEAN, t \in ThresholdFlags}
DefaultFlags ==
  [add_extra_lmks_from_stereo |-> FALSE, reduce_mesh_to_time_horizon |-> TRUE,
   min_ratio_btw_largest_smallest_side |-> Half,
   min_elongation_ratio |-> Half, max_triangle_side |-> <<6, 1>>]

\* Triangles handed to isBadTriangle directly.
TrianglePoints ==
  {<<0, 0, 0>>, <<4, 0, 0>>, <<0, 4, 0>>, <<0, 0, 4>>, <<12, 0, 0>>, <<4, 4, 4>>, <<2, 0, 0>>}
TriangleThresholds == Disabled \cup {Half}
TriangleSides == Disabled \cup {<<6, 1>>}

NoCall == [op |-> "none"]
NoRet == [done |-> FALSE, v |-> FALSE]
NoFrame == [points_with_id_VIO |-> <<>>, mesh_2d |-> <<>>, pose |-> [rot |-> "I", t |-> <<0, 0, 0>>]]
NoCluster ==
  [mesh |-> EmptyMesh, planes |-> <<>>, plane_id |-> 0, new_planes |-> <<>>,
   new_non_associated_planes |-> <<>>, points_with_id_vio |-> <<>>,
   abort |-> FALSE, z_components |-> <<>>, walls |-> <<>>]
NoPlanes ==
  /\ planes_ = <<>>
  /\ static_plane_id = 0
  /\ mesher = 1
  /\ created = <<>>
  /\ clusters = 0
  /\ cluster = NoCluster

(***************************************************************************)
(* The mesher over frames                                                  *)
(***************************************************************************)
InitMesh ==
  /\ FLAGS \in Flags
  /\ mesh_ = EmptyMesh
  /\ calls = 0
  /\ aborted = FALSE
  /\ last = NoFrame
  /\ prev_mesh = EmptyMesh
  /\ repeated = FALSE
  /\ call = NoCall
  /\ ret = NoRet
  /\ NoPlanes

\* One call of update_mesh_3d on the mesher.
UpdateMesh3DWith(vio, stereoFrame, pose, mesh_2d) ==
  /\ call.op = "none"
  /\ ~aborted
  /\ calls < MaxFrames
  /\ \E r \in {updateMesh3D(mesh_, vio, stereoFrame, pose, mesh_2d, FLAGS)} :
       /\ mesh_' = r.mesh
       /\ aborted' = r.aborted
  /\ last' = [points_with_id_VIO |-> vio, mesh_2d |-> mesh_2d, pose |-> pose]
  /\ prev_mesh' = mesh_
  /\ repeated' = (calls > 0 /\ last' = last)
  /\ calls' = calls + 1
  /\ UNCHANGED <<FLAGS, call, ret, planeVars>>

UpdateMesh3D ==
  \E vio \in Tables, mesh_2d \in Meshes2D, pose \in Poses :
    UpdateMesh3DWith(vio, StereoFrame, pose, mesh_2d)

NextMesh == UpdateMesh3D
SpecMesh == InitMesh /\ [][NextMesh]_vars

(***************************************************************************)
(* isBadTriangle on its own                                                *)
(***************************************************************************)
InitTriangle ==
  /\ FLAGS = DefaultFlags
  /\ mesh_ = EmptyMesh
  /\ calls = 0
  /\ aborted = FALSE
  /\ last = NoFrame
  /\ prev_mesh = EmptyMesh
  /\ repeated = FALSE
  /\ \E p1 \in TrianglePoints, p2 \in TrianglePoints, p3 \in TrianglePoints,
        pose \in Poses, r \in TriangleThresholds, e \in TriangleThresholds,
        m \in TriangleSides :
       call = [op |-> "isBadTriangle",
               polygon |-> <<Vertex(1, p1), Vertex(2, p2), Vertex(3, p3)>>,
               pose |-> pose, min_ratio |-> r, min_elongation_ratio |-> e,
               max_triangle_side |-> m]
  /\ ret = NoRet
  /\ NoPlanes

IsBadTriangleCall ==
  /\ call.op = "isBadTriangle"
  /\ ~ret.done
  /\ ret' = [done |-> TRUE,
             v |-> isBadTriangle(call.polygon, call.pose, call.min_ratio,
                                 call.min_elongation_ratio, call.max_triangle_side)]
  /\ UNCHANGED <<FLAGS, aborted, call, meshVars, planeVars>>

NextTriangle == IsBadTriangleCall
SpecTriangle == InitTriangle /\ [][NextTriangle]_vars

(***************************************************************************)
(* Claims about update_mesh_3d                                             *)
(***************************************************************************)
Returned == calls > 0 /\ ~aborted
\* The table the most recent call meshed from.
LastTable == PointsWithIdAll(last.points_with_id_VIO, StereoFrame, last.pose, FLAGS)
LastThresholds == Thresholds(FLAGS, last.pose)
MeshLmkIds == {mesh_.polygons[i][j] : i \in 1..Len(mesh_.polygons), j \in 1..3}
\* The polygons populate3dMesh accepts from the most recent 2D triangulation.
Accepted ==
  Polygons(populate3dMesh(EmptyMesh, last.mesh_2d, LastTable, StereoFrame, LastThresholds).mesh)
Range(f) == {f[i] : i \in DOMAIN f}

\* C1 as stated: after a call with reduce_mesh_to_time_horizon on, every
\* polygon's landmark-ids are keys of the landmark_positions handed to the
\* call, whether or not add_extra_lmks_from_stereo is on.
C1_IdsInGivenTable ==
  Returned /\ FLAGS.reduce_mesh_to_time_horizon
    => MeshLmkIds \subseteq DOMAIN last.points_with_id_VIO

\* C1 amended: after a call with reduce_mesh_to_time_horizon on, every
\* polygon's landmark-ids are keys of the table the call meshed from, which
\* is landmark_positions itself only when add_extra_lmks_from_stereo is off.
C1_IdsInMeshedTable ==
  Returned /\ FLAGS.reduce_mesh_to_time_horizon
    => /\ MeshLmkIds \subseteq DOMAIN LastTable
       /\ ~FLAGS.add_extra_lmks_from_stereo
            => MeshLmkIds \subseteq DOMAIN last.points_with_id_VIO

\* A later frame with the flag on dropped a polygon whose landmark left the
\* table and kept another.
C1_Witness ==
  /\ Returned /\ FLAGS.reduce_mesh_to_time_horizon /\ calls = 2
  /\ Len(mesh_.polygons) > 0
  /\ \E i \in 1..Len(prev_mesh.polygons) :
       \E j \in 1..3 : prev_mesh.polygons[i][j] \notin DOMAIN LastTable

\* C2 as stated: every polygon has 3 vertices, each at the position that
\* landmark_positions holds for its landmark-id.
C2_PositionsFromGivenTable ==
  Returned =>
    \A i \in 1..getNumberOfPolygons(mesh_) :
      /\ Len(getPolygon(mesh_, i)) = 3
      /\ \A j \in 1..3 :
           LET v == getPolygon(mesh_, i)[j] IN
           /\ v.lmk_id \in DOMAIN last.points_with_id_VIO
           /\ v.pos = last.points_with_id_VIO[v.lmk_id]

\* C2 amended: every polygon has 3 vertices; a vertex whose landmark-id is a
\* key of the table the call meshed from is at that table's position
\* narrowed to single precision, and any other vertex (there is one only
\* with reduce_mesh_to_time_horizon off) is where it was before the call.
C2_PositionsFromMeshedTable ==
  Returned =>
    \A i \in 1..getNumberOfPolygons(mesh_) :
      /\ Len(getPolygon(mesh_, i)) = 3
      /\ \A j \in 1..3 :
           LET v == getPolygon(mesh_, i)[j] IN
           IF v.lmk_id \in DOMAIN LastTable
             THEN v.pos = ToFloat3(LastTable[v.lmk_id])
             ELSE /\ ~FLAGS.reduce_mesh_to_time_horizon
                  /\ v.lmk_id \in DOMAIN prev_mesh.vertices
                  /\ v.pos = prev_mesh.vertices[v.lmk_id]

\* A second frame moved a landmark of a polygon of the first frame, which
\* is still in the mesh, and another of its landmarks left the table.
C2_Witness ==
  /\ Returned /\ calls = 2
  /\ \E i \in 1..Len(mesh_.polygons) :
       /\ \E j \in 1..3 : mesh_.polygons[i][j] \notin DOMAIN LastTable
       /\ \E j \in 1..3 :
            /\ mesh_.polygons[i][j] \in DOMAIN LastTable
            /\ mesh_.vertices[mesh_.polygons[i][j]]
                 # prev_mesh.vertices[mesh_.polygons[i][j]]

\* C3 as stated: a call with the inputs of the call before it leaves the
\* polygon sequence as that call left it.
C3_SecondCallChangesNothing ==
  Returned /\ repeated => Polygons(mesh_) = Polygons(prev_mesh)

\* C3 amended: a call with the inputs of the call before it leaves the
\* polygons of that call followed by one more copy of the triangles accepted
\* from the 2D triangulation: the same distinct polygons at the same
\* positions, the count larger by the number of accepted triangles.
C3_SecondCallAppendsAccepted ==
  Returned /\ repeated =>
    /\ Polygons(mesh_) = Polygons(prev_mesh) \o Accepted
    /\ Range(Polygons(mesh_)) = Range(Polygons(prev_mesh))

\* The second of two identical calls, with a triangle accepted.
C3_Witness == Returned /\ repeated /\ Len(Accepted) > 0

\* The filter on its own and inside the mesher.
InitFilter == InitTriangle \/ InitMesh
NextFilter == IsBadTriangleCall \/ UpdateMesh3D
SpecFilter == InitFilter /\ [][NextFilter]_vars

(***************************************************************************)
(* Claims about isBadTriangle                                              *)
(***************************************************************************)
\* The three criteria, stated on the squared side lengths of a polygon.
SidesSq(polygon) ==
  {NormSq(Sub(polygon[1].pos, polygon[2].pos)),
   NormSq(Sub(polygon[2].pos, polygon[3].pos)),
   NormSq(Sub(polygon[3].pos, polygon[1].pos))}
\* smallest / largest >= n/d; three coincident vertices have no ratio.
RatioCriterion(polygon, thr) ==
  \A small \in SidesSq(polygon), large \in SidesSq(polygon) :
    large > 0 /\ small * thr[2] * thr[2] >= thr[1] * thr[1] * large
ElongationCriterion(polygon, pose, thr) ==
  Geq(getRatioBetweenTangentialAndRadialDisplacement(
        polygon[1].pos, polygon[2].pos, polygon[3].pos, pose), thr)
SideCriterion(polygon, thr) ==
  \A side \in SidesSq(polygon) : side * thr[2] * thr[2] <= thr[1] * thr[1]
Filtered == call.op = "isBadTriangle" /\ ret.done

\* C4: a threshold of 0 or -1 switches its check off, so the triangle is
\* good exactly when it meets the criteria whose thresholds are positive.
C4_NonPositiveThresholdDisables ==
  Filtered =>
    (~ret.v <=>
       /\ Positive(call.min_ratio) => RatioCriterion(call.polygon, call.min_ratio)
       /\ Positive(call.min_elongation_ratio) =>
            ElongationCriterion(call.polygon, call.pose, call.min_elongation_ratio)
       /\ Positive(call.max_triangle_side) =>
            SideCriterion(call.polygon, call.max_triangle_side))

\* C5: with the three thresholds positive a triangle is good exactly when its
\* side ratio and its elongation reach their minimum and no side exceeds the
\* maximum; and no polygon of the mesh has a side longer than a positive
\* max_triangle_side.
C5_GoodIffAllThree ==
  /\ Filtered /\ Positive(call.min_ratio) /\ Positive(call.min_elongation_ratio)
       /\ Positive(call.max_triangle_side)
       => (~ret.v <=>
             /\ RatioCriterion(call.polygon, call.min_ratio)
             /\ ElongationCriterion(call.polygon, call.pose, call.min_elongation_ratio)
             /\ SideCriterion(call.polygon, call.max_triangle_side))
  /\ Returned /\ Positive(FLAGS.max_triangle_side)
       => \A i \in 1..getNumberOfPolygons(mesh_) :
            SideCriterion(getPolygon(mesh_, i), FLAGS.max_triangle_side)

\* A triangle rejected for its longest side alone.
C5_Witness ==
  /\ Filtered /\ ret.v
  /\ Positive(call.min_ratio) /\ Positive(call.min_elongation_ratio)
  /\ Positive(call.max_triangle_side)
  /\ RatioCriterion(call.polygon, call.min_ratio)
  /\ ElongationCriterion(call.polygon, call.pose, call.min_elongation_ratio)
  /\ ~SideCriterion(call.polygon, call.max_triangle_side)

(***************************************************************************)
(* The segmenter over frames                                               *)
(***************************************************************************)
MaxClusterCalls == 3
MaxMeshers == 2

\* A scene: a floor at z = 0 (landmarks 1, 2, 3), a ledge at z = 4 or z = 2
\* (landmarks 5, 6, 7) and a wall on x + y = 4 (landmarks 2, 3, 5).  In the
\* last table landmark 1 lies on landmark 2.
SceneIds == {1, 2, 3, 5, 6, 7}
ScenePos(ledge) ==
  [id \in SceneIds |->
     CASE id = 1 -> <<0, 0, 0>> [] id = 2 -> <<4, 0, 0>> [] id = 3 -> <<0, 4, 0>>
       [] id = 5 -> <<0, 4, ledge>> [] id = 6 -> <<4, 0, ledge>>
       [] OTHER -> <<4, 4, ledge>>]
SceneTables ==
  {ScenePos(4), ScenePos(2), [id \in SceneIds \ {7} |-> ScenePos(4)[id]],
   [ScenePos(4) EXCEPT ![1] = <<4, 0, 0>>]}
\* Keypoint i carries landmark i (keypoint 4 carries none); the stereo
\* camera sees landmark 7 on the ledge.
SceneFrame ==
  [landmarks_ |-> <<1, 2, 3, -1, 5, 6, 7>>,
   right_keypoints_status_ |->
     <<"NO_RIGHT_RECT", "NO_RIGHT_RECT", "NO_RIGHT_RECT", "NO_RIGHT_RECT",
       "NO_RIGHT_RECT", "NO_RIGHT_RECT", "VALID">>,
   keypoints_3d_ |-> [i \in 1..7 |-> <<4, 4, 4>>]]
ScenePose == [rot |-> "I", t |-> <<0, 0, 0>>]
\* Floor, ledge, wall; a triangle with two vertices on one keypoint, which
\* has no normal; one whose first two vertices are one keypoint.
SceneMeshes2D ==
  {<<<<1, 2, 3>>, <<5, 6, 7>>>>, <<<<2, 3, 5>>>>, <<<<1, 2, 3>>, <<2, 3, 5>>>>,
   <<<<2, 1, 1>>, <<5, 6, 7>>>>, <<<<1, 1, 2>>>>}

Tenth == <<1, 10>>
\* The flags that vary: stereo landmarks, clustered points, double
\* association, the window of the z histogram, its minimum separation.
FlagChoices ==
  {<<FALSE, TRUE, TRUE, 1, <<3, 1>>>>, <<FALSE, FALSE, FALSE, 2, <<-1, 1>>>>,
   <<TRUE, FALSE, TRUE, 1, <<3, 1>>>>, <<TRUE, TRUE, FALSE, 2, <<-1, 1>>>>}
PlaneFlagsOf(h) ==
  [add_extra_lmks_from_stereo |-> h[1], reduce_mesh_to_time_horizon |-> TRUE,
   min_ratio_btw_largest_smallest_side |-> <<0, 1>>,
   min_elongation_ratio |-> <<0, 1>>, max_triangle_side |-> <<0, 1>>,
   normal_tolerance_polygon_plane_association |-> Tenth,
   distance_tolerance_polygon_plane_association |-> Half,
   normal_tolerance_plane_plane_association |-> Tenth,
   distance_tolerance_plane_plane_association |-> Half,
   do_double_association |-> h[3],
   normal_tolerance_horizontal_surface |-> Tenth,
   normal_tolerance_walls |-> Tenth,
   only_use_non_clustered_points |-> h[2],
   hist_2d_nr_of_local_max |-> 2, hist_2d_min_support |-> 1,
   hist_2d_min_dist_btw_local_max |-> 1, hist_2d_distance_bins |-> 6,
   hist_2d_distance_range_min |-> -6, hist_2d_distance_range_max |-> 6,
   z_histogram_bins |-> 4, z_histogram_min_range |-> -1,
   z_histogram_max_range |-> 7, z_histogram_window_size |-> h[4],
   z_histogram_peak_per |-> Half, z_histogram_min_support |-> 3,
   z_histogram_min_separation |-> h[5],
   z_histogram_max_number_of_peaks_to_select |-> 3]
PlaneFlags == {PlaneFlagsOf(h) : h \in FlagChoices}

InitPlanes ==
  /\ FLAGS \in PlaneFlags
  /\ mesh_ = EmptyMesh
  /\ calls = 0
  /\ aborted = FALSE
  /\ last = NoFrame
  /\ prev_mesh = EmptyMesh
  /\ repeated = FALSE
  /\ call = NoCall
  /\ ret = NoRet
  /\ NoPlanes

SceneUpdate ==
  \E vio \in SceneTables, mesh_2d \in SceneMeshes2D :
    UpdateMesh3DWith(vio, SceneFrame, ScenePose, mesh_2d)

SymbolsOf(ps) == [k \in 1..Len(ps) |-> [index |-> ps[k].plane_symbol, mesher |-> mesher]]

\* One call of cluster_planes_from_mesh on the caller's list, with the
\* landmark table of the frame.
ClusterPlanesFromMesh ==
  /\ call.op = "none"
  /\ ~aborted
  /\ clusters < MaxClusterCalls
  /\ \E ub \in DanglingOutcomes :
       \E r \in {clusterPlanesFromMesh(mesh_, planes_, static_plane_id,
                                       last.points_with_id_VIO, FLAGS, ub)} :
         /\ planes_' = r.planes
         /\ static_plane_id' = r.plane_id
         /\ aborted' = r.abort
         /\ created' = created \o SymbolsOf(r.new_planes)
         /\ cluster' = [mesh |-> mesh_, planes |-> planes_,
                        plane_id |-> static_plane_id,
                        new_planes |-> r.new_planes,
                        new_non_associated_planes |-> r.new_non_associated_planes,
                        points_with_id_vio |-> last.points_with_id_VIO,
                        abort |-> r.abort,
                        z_components |-> r.z_components, walls |-> r.walls]
  /\ clusters' = clusters + 1
  /\ UNCHANGED <<FLAGS, call, ret, meshVars, mesher>>

\* Mesher::Mesher(): the caller goes on with a new mesher, whose mesh is
\* empty; the static counter is the process's.
NewMesher ==
  /\ call.op = "none"
  /\ ~aborted
  /\ mesher < MaxMeshers
  /\ clusters > 0
  /\ mesh_' = EmptyMesh
  /\ mesher' = mesher + 1
  /\ UNCHANGED <<FLAGS, aborted, call, ret, calls, last, prev_mesh, repeated,
                 planes_, static_plane_id, created, clusters, cluster>>

NextPlanes == SceneUpdate \/ ClusterPlanesFromMesh \/ NewMesher
SpecPlanes == InitPlanes /\ [][NextPlanes]_vars

(***************************************************************************)
(* Claims about cluster_planes_from_mesh                                   *)
(***************************************************************************)
Clustered == clusters > 0 /\ ~aborted
\* The planes the most recent call appended.
Appended == SubSeq(planes_, Len(cluster.planes) + 1, Len(planes_))

\* C6: every plane symbol the segmenter creates has an index larger than the
\* index of every plane created before it, across calls and across Mesher
\* instances, so no index is issued twice; and the counter never decreases
\* or resets.
C6_SymbolsStrictlyIncrease ==
  /\ [](\A j \in 1..Len(created), k \in 1..Len(created) :
          j < k => created[j].index < created[k].index)
  /\ [](\A k \in 1..Len(created) : created[k].index < static_plane_id)
  /\ [][static_plane_id' >= static_plane_id]_vars

\* Two instances have created planes, the second after the first, and one
\* call created more than one plane.
C6_Witness ==
  /\ ~aborted
  /\ \E j \in 1..Len(created), k \in 1..Len(created) :
       j < k /\ created[j].mesher = 1 /\ created[k].mesher = 2
  /\ Len(cluster.new_planes) > 1

\* |v . normal - distance| <= tolerance for the vertex position v.
VertexWithin(v, plane, tolerance) ==
  LET s == NormSq(plane.normal_)
      \* v . normal - distance = (a - b * sqrt(s)) / (q * sqrt(s)), and the
      \* tolerance is c * sqrt(s) / (q * sqrt(s)).
      a == Dot(v, plane.normal_) * plane.distance_[2] * tolerance[2]
      b == plane.distance_[1] * tolerance[2]
      c == tolerance[1] * plane.distance_[2]
  IN  RootLeq(b - c, s, a) /\ RootGeq(b + c, s, a)

\* C7: when cluster_planes_from_mesh returns, every polygon listed in the
\* triangle_ids_ of a plane of the list, seed or appended, has its three
\* vertices within distance_tolerance_polygon_plane_association of the plane.
C7_ListedPolygonsWithinTolerance ==
  Clustered =>
    \A k \in 1..Len(planes_) :
      \A n \in 1..Len(planes_[k].triangle_cluster_.triangle_ids_) :
        LET id == planes_[k].triangle_cluster_.triangle_ids_[n] IN
        /\ id < Len(cluster.mesh.polygons)
        /\ \A j \in 1..3 :
             VertexWithin(cluster.mesh.vertices[cluster.mesh.polygons[id + 1][j]],
                          planes_[k],
                          FLAGS.distance_tolerance_polygon_plane_association)

\* A seed plane and an appended plane both list polygons, while the mesh
\* holds a polygon with the seed plane's normal that is too far from it.
C7_Witness ==
  /\ Clustered
  /\ Len(cluster.planes) > 0 /\ Len(Appended) > 0
  /\ Len(planes_[1].triangle_cluster_.triangle_ids_) > 0
  /\ Len(planes_[Len(planes_)].triangle_cluster_.triangle_ids_) > 0
  /\ \E i \in 1..Len(cluster.mesh.polygons) :
       /\ \A j \in 1..3 :
            cluster.mesh.vertices[cluster.mesh.polygons[i][j]][3] = 4
       /\ planes_[1].normal_ = Vertical /\ planes_[1].distance_[1] = 0

Identity(plane) ==
  <<plane.plane_symbol, plane.normal_, plane.distance_,
    plane.triangle_cluster_.cluster_id_>>

\* C8: the planes handed to cluster_planes_from_mesh are a prefix of the
\* list it leaves, with symbol, normal, distance and cluster-id as they
\* were; the planes after them are the non-associated new planes; and when
\* every new plane was associated the list is as long as it was.
C8_GivenPlanesArePrefix ==
  Clustered =>
    /\ Len(planes_) >= Len(cluster.planes)
    /\ \A k \in 1..Len(cluster.planes) :
         Identity(planes_[k]) = Identity(cluster.planes[k])
    /\ [k \in 1..Len(Appended) |-> Identity(Appended[k])]
         = [k \in 1..Len(cluster.new_non_associated_planes) |->
              Identity(cluster.new_non_associated_planes[k])]
    /\ Len(cluster.new_non_associated_planes) = 0
         => Len(planes_) = Len(cluster.planes)

\* Planes were segmented and all of them associated with planes of the
\* list, whose landmark ids the call rewrote.
C8_Witness ==
  /\ Clustered
  /\ Len(cluster.planes) > 1
  /\ Len(cluster.new_planes) > 0
  /\ Len(cluster.new_non_associated_planes) = 0
  /\ \E k \in 1..Len(cluster.planes) : planes_[k].lmk_ids_ # cluster.planes[k].lmk_ids_

(***************************************************************************)
(* associatePlanes on its own                                              *)
(***************************************************************************)
MaxBackendPlanes == 2
MaxSegmentedPlanes == 3

RECURSIVE SeqsUpTo(_, _)
SeqsUpTo(S, n) ==
  IF n = 0 THEN {<<>>}
  ELSE LET shorter == SeqsUpTo(S, n - 1)
       IN  shorter \cup {Append(q, x) : q \in {r \in shorter : Len(r) = n - 1}, x \in S}
\* Floors at 0 and at 1/2, a far ledge, a ceiling at 0 seen from above, a wall.
BackendGeometries ==
  {<<<<0, 0, 1>>, <<0, 2>>>>, <<<<0, 0, 1>>, <<1, 2>>>>, <<<<0, 0, 1>>, <<8, 2>>>>}
SegmentedGeometries ==
  {<<<<0, 0, 1>>, <<0, 2>>>>, <<<<0, 0, -1>>, <<0, 2>>>>, <<<<1, 1, 0>>, <<6, 2>>>>}
\* The planes of a list carry the symbols first, first + 1, ...
PlanesOf(geometries, first, cluster_id) ==
  [k \in 1..Len(geometries) |->
     Plane(first + k - 1, geometries[k][1], geometries[k][2], <<>>, cluster_id)]
BackendLists ==
  {PlanesOf(g, 0, 2) : g \in SeqsUpTo(BackendGeometries, MaxBackendPlanes)}
SegmentedLists ==
  {PlanesOf(g, MaxBackendPlanes, 2) : g \in SeqsUpTo(SegmentedGeometries, MaxSegmentedPlanes)}
\* What the output vector may hold when it is handed in.
StalePlane == Plane(MaxBackendPlanes + MaxSegmentedPlanes, <<1, 0, 0>>, <<2, 2>>, <<1, 2>>, 1)

InitAssoc ==
  /\ FLAGS \in {f \in PlaneFlags : ~f.add_extra_lmks_from_stereo}
  /\ mesh_ = EmptyMesh
  /\ calls = 0
  /\ aborted = FALSE
  /\ last = NoFrame
  /\ prev_mesh = EmptyMesh
  /\ repeated = FALSE
  /\ \E segmented_planes \in SegmentedLists, backend \in BackendLists,
        non_associated_planes \in {<<>>, <<StalePlane>>} :
       call = [op |-> "associatePlanes",
               segmented_planes |-> segmented_planes,
               planes |-> backend,
               non_associated_planes |-> non_associated_planes,
               normal_tolerance |-> FLAGS.normal_tolerance_plane_plane_association,
               distance_tolerance |-> FLAGS.distance_tolerance_plane_plane_association]
  /\ ret = NoRet
  /\ NoPlanes

AssociatePlanesCall ==
  /\ call.op = "associatePlanes"
  /\ ~ret.done
  /\ ret' = [done |-> TRUE,
             v |-> associatePlanes(call.segmented_planes, call.planes,
                                   call.non_associated_planes, call.normal_tolerance,
                                   call.distance_tolerance, FLAGS)]
  /\ UNCHANGED <<FLAGS, aborted, call, meshVars, planeVars>>

NextAssoc == AssociatePlanesCall
SpecAssoc == InitAssoc /\ [][NextAssoc]_vars

(***************************************************************************)
(* Claims about associatePlanes                                            *)
(***************************************************************************)
Associated == call.op = "associatePlanes" /\ ret.done
\* Segmented plane s is a geometric match of backend plane b.
Match(s, b) ==
  geometricEqual(call.planes[b], call.segmented_planes[s], call.normal_tolerance,
                 call.distance_tolerance)
\* Backend plane b was taken by a segmented plane before s.
UsedBefore(s, b) ==
  \E t \in 1..(s - 1) :
    ret.v.associations[t].backend = b /\ ~ret.v.associations[t].double
Emitted(s) == InSeq(call.segmented_planes[s], ret.v.non_associated_planes)

\* C9: with do_double_association off no backend plane is associated with
\* more than one segmented plane: a segmented plane goes past the matches
\* that are taken to the first match that is free, and is emitted as
\* non-associated when no match is free.  With the flag on a segmented plane
\* that has a match is associated, with its first match even when that one
\* is taken, and is not emitted.
C9_NoBackendPlaneTwice ==
  Associated /\ Len(call.planes) > 0 =>
    \A s \in 1..Len(call.segmented_planes) :
      LET a == ret.v.associations[s]
          matches == {b \in 1..Len(call.planes) : Match(s, b)}
          free == {b \in matches : ~UsedBefore(s, b)}
      IN  IF FLAGS.do_double_association
            THEN /\ matches # {} <=> a.backend # 0
                 /\ a.backend # 0 =>
                      /\ a.backend \in matches
                      /\ \A b \in matches : a.backend <= b
                      /\ a.double <=> UsedBefore(s, a.backend)
                 /\ Emitted(s) <=> matches = {}
            ELSE /\ \A t \in 1..Len(call.segmented_planes) :
                      t # s /\ a.backend # 0 =>
                        ret.v.associations[t].backend # a.backend
                 /\ free # {} <=> a.backend # 0
                 /\ a.backend # 0 =>
                      a.backend \in free /\ \A b \in free : a.backend <= b
                 /\ ~a.double
                 /\ Emitted(s) <=> free = {}

\* With the flag off, one segmented plane went past a taken match to a free
\* one and a later one found all its matches taken.
C9_Witness ==
  /\ Associated /\ ~FLAGS.do_double_association
  /\ \E s \in 1..Len(call.segmented_planes) :
       /\ ret.v.associations[s].backend > 1
       /\ Match(s, 1) /\ UsedBefore(s, 1)
  /\ \E s \in 1..Len(call.segmented_planes) :
       /\ Emitted(s)
       /\ \E b \in 1..Len(call.planes) : Match(s, b)

\* C10: the output is the segmented planes that did not associate, in the
\* order of the segmented list and as they are there; it is the whole
\* segmented list when there is no backend plane; nothing of what the output
\* vector held before is left.
C10_OutputIsNonAssociatedSubsequence ==
  Associated =>
    LET NotAssociated(plane) ==
          \E s \in 1..Len(call.segmented_planes) :
            /\ call.segmented_planes[s] = plane
            /\ ret.v.associations[s].backend = 0
    IN  /\ ret.v.non_associated_planes = SelectSeq(call.segmented_planes, NotAssociated)
        /\ Len(call.planes) = 0 => ret.v.non_associated_planes = call.segmented_planes
        /\ \A k \in 1..Len(call.non_associated_planes) :
             ~InSeq(call.non_associated_planes[k], ret.v.non_associated_planes)

\* The output vector held a plane; of three segmented planes the second
\* associated and the other two came out.
C10_Witness ==
  /\ Associated
  /\ Len(call.non_associated_planes) > 0
  /\ Len(call.segmented_planes) = 3
  /\ ret.v.associations[2].backend # 0
  /\ ret.v.non_associated_planes = <<call.segmented_planes[1], call.segmented_planes[3]>>

(***************************************************************************)
(* Claims about polygons without a normal                                  *)
(***************************************************************************)
\* The vertices of polygon i (counted from 1) of the mesh are collinear or
\* coincident.
HasNoNormal(mesh, i) ==
  LET polygon == getPolygon(mesh, i) IN
  Cross(Sub(polygon[2].pos, polygon[1].pos), Sub(polygon[3].pos, polygon[1].pos))
    = <<0, 0, 0>>
\* The mesh without these polygons.
WithNormals(mesh) ==
  LET Kept(i) == ~HasNoNormal(mesh, i)
      kept == SelectSeq([i \in 1..Len(mesh.polygons) |-> i], Kept)
  IN  [mesh EXCEPT !.polygons = [k \in 1..Len(kept) |-> mesh.polygons[kept[k]]]]
ClusterCalled == clusters > 0

\* C11: a polygon without a normal is skipped by cluster_planes_from_mesh:
\* the call aborts only if it aborts on the mesh without these polygons, no
\* plane lists such a polygon, and the new planes are those segmented from
\* the mesh without them.
C11_PolygonWithoutNormalIsSkipped ==
  ClusterCalled /\ (\E i \in 1..Len(cluster.mesh.polygons) : HasNoNormal(cluster.mesh, i))
    => \E ub \in DanglingOutcomes :
         LET without == clusterPlanesFromMesh(WithNormals(cluster.mesh), cluster.planes,
                                              cluster.plane_id,
                                              cluster.points_with_id_vio, FLAGS, ub)
         IN  /\ cluster.abort => without.abort
             /\ ~cluster.abort =>
                   /\ cluster.new_planes = without.new_planes
                   /\ \A k \in 1..Len(planes_) :
                        \A n \in 1..Len(planes_[k].triangle_cluster_.triangle_ids_) :
                          ~HasNoNormal(cluster.mesh,
                                       planes_[k].triangle_cluster_.triangle_ids_[n] + 1)

\* As C11 for the polygons whose first vertex coincides with neither of the
\* other two.
C11_CollinearPolygonIsSkipped ==
  (\A i \in 1..Len(cluster.mesh.polygons) :
     LET polygon == getPolygon(cluster.mesh, i) IN
     polygon[1].pos # polygon[2].pos /\ polygon[1].pos # polygon[3].pos)
    => C11_PolygonWithoutNormalIsSkipped

(***************************************************************************)
(* populate3dMesh on its own                                               *)
(***************************************************************************)
MaxTriangles2D == 2

\* 2D triangles over the keypoints of StereoFrame: keypoint 5 carries no
\* landmark, and the tables may lack landmarks 3 and 4.
PopulateTriangles2D == {<<1, 2, 3>>, <<2, 3, 4>>, <<4, 5, 1>>, <<1, 4, 2>>, <<5, 1, 2>>}
PopulateMeshes2D == SeqsUpTo(PopulateTriangles2D, MaxTriangles2D)
\* The mesh the call finds: empty, or holding a polygon of a frame before.
PopulateMeshes ==
  {EmptyMesh,
   addPolygonToMesh(EmptyMesh, <<Vertex(1, <<0, 0, 4>>), Vertex(2, <<4, 0, 4>>),
                                 Vertex(9, <<0, 4, 4>>)>>)}

InitPopulate ==
  /\ FLAGS \in {f \in Flags : ~f.add_extra_lmks_from_stereo /\ f.reduce_mesh_to_time_horizon}
  /\ mesh_ \in PopulateMeshes
  /\ calls = 0
  /\ aborted = FALSE
  /\ last = NoFrame
  /\ prev_mesh = EmptyMesh
  /\ repeated = FALSE
  /\ \E mesh_2d \in PopulateMeshes2D, points_with_id_map \in Tables, pose \in Poses :
       call = [op |-> "populate3dMesh", mesh_2d |-> mesh_2d,
               points_with_id_map |-> points_with_id_map, pose |-> pose]
  /\ ret = NoRet
  /\ NoPlanes

\* One call of populate3dMesh on the mesher's mesh.
Populate3dMeshCall ==
  /\ call.op = "populate3dMesh"
  /\ ~ret.done
  /\ \E r \in {populate3dMesh(mesh_, call.mesh_2d, call.points_with_id_map, StereoFrame,
                                Thresholds(FLAGS, call.pose))} :
       /\ mesh_' = r.mesh
       /\ aborted' = r.aborted
  /\ prev_mesh' = mesh_
  /\ ret' = [done |-> TRUE, v |-> FALSE]
  /\ UNCHANGED <<FLAGS, call, calls, last, repeated, planeVars>>

NextPopulate == Populate3dMeshCall
SpecPopulate == InitPopulate /\ [][NextPopulate]_vars

(***************************************************************************)
(* Claims about populate3dMesh                                             *)
(***************************************************************************)
Populated == call.op = "populate3dMesh" /\ ret.done
\* The landmark-ids of 2D triangle i.
LmkIdsOf(i) == [j \in 1..3 |-> findLmkIdFromPixel(StereoFrame, call.mesh_2d[i][j])]
Resolved(i) == \A j \in 1..3 : LmkIdsOf(i)[j] \in DOMAIN call.points_with_id_map
PolygonOf(i) ==
  [j \in 1..3 |-> Vertex(LmkIdsOf(i)[j], ToFloat3(call.points_with_id_map[LmkIdsOf(i)[j]]))]
Good(i) ==
  /\ Resolved(i)
  /\ ~isBadTriangle(PolygonOf(i), call.pose, FLAGS.min_ratio_btw_largest_smallest_side,
                    FLAGS.min_elongation_ratio, FLAGS.max_triangle_side)
\* The lookup of a pixel of triangle i fails: the pixel carries no landmark
\* and the vertices before it are in the table.
LookupFails(i) ==
  \E j \in 1..3 :
    /\ LmkIdsOf(i)[j] = -1
    /\ \A k \in 1..(j - 1) : LmkIdsOf(i)[k] \in DOMAIN call.points_with_id_map
\* The triangles the call gets through: all of them, or those before the
\* first failed lookup.
Processed ==
  {i \in 1..Len(call.mesh_2d) : \A k \in 1..i : ~LookupFails(k)}
RECURSIVE AddAll(_, _, _)
AddAll(mesh, is, i) ==
  IF i > Len(call.mesh_2d) THEN mesh
  ELSE AddAll(IF i \in is THEN addPolygonToMesh(mesh, PolygonOf(i)) ELSE mesh, is, i + 1)

\* C12: a 2D triangle with a landmark that is not in landmark_positions is
\* abandoned as a whole and does not abort the call: the mesh the call
\* leaves is the mesh it found plus, in the order of the 2D mesh, one polygon
\* for each processed triangle whose three landmarks are resolved and which
\* isBadTriangle passes, made of that triangle's own three vertices; and the
\* call aborts only on a failed pixel lookup.
C12_MissingLandmarkAbandonsTriangle ==
  Populated =>
    /\ mesh_ = AddAll(prev_mesh, {i \in Processed : Good(i)}, 1)
    /\ (\A i \in 1..Len(call.mesh_2d) : ~LookupFails(i)) => ~aborted

\* A triangle lost its second landmark after the first was written, the
\* triangle after it was appended, and the mesh held a polygon before.
C12_Witness ==
  /\ Populated /\ ~aborted
  /\ Len(call.mesh_2d) = 2
  /\ LmkIdsOf(1)[1] \in DOMAIN call.points_with_id_map
  /\ LmkIdsOf(1)[2] \notin DOMAIN call.points_with_id_map
  /\ Good(2)
  /\ Len(prev_mesh.polygons) = 1 /\ Len(mesh_.polygons) = 2

\* C13 as stated: the call aborts whenever a vertex pixel of a triangle of
\* the 2D mesh maps to landmark-id -1.
C13_AnyUnmappedPixelAborts ==
  Populated =>
    ((\E i \in 1..Len(call.mesh_2d) : \E j \in 1..3 : LmkIdsOf(i)[j] = -1) => aborted)

\* C13 amended: the call aborts exactly when a pixel it looks up maps to
\* landmark-id -1; the pixels of a triangle after a vertex whose landmark is
\* not in landmark_positions are not looked up.
C13_LookedUpUnmappedPixelAborts ==
  Populated => (aborted <=> \E i \in 1..Len(call.mesh_2d) : LookupFails(i))

\* The call went past an unmapped pixel behind a missing landmark in its
\* first triangle and aborted on its second.
C13_Witness ==
  /\ Populated /\ aborted
  /\ Len(call.mesh_2d) = 2
  /\ \E j \in 1..3 : LmkIdsOf(1)[j] = -1
  /\ ~LookupFails(1) /\ LookupFails(2)

(***************************************************************************)
(* extractLmkIdsFromTriangleCluster on its own                             *)
(***************************************************************************)
MaxTriangleIds == 3
MaxClusterPolygons == 2
ClusterPolygons ==
  {<<Vertex(a[1], BasePos[a[1]]), Vertex(a[2], BasePos[a[2]]), Vertex(a[3], BasePos[a[3]])>> :
     a \in {<<3, 1, 2>>, <<2, 3, 4>>, <<4, 1, 3>>}}
RECURSIVE MeshOf(_)
MeshOf(polygons) ==
  IF polygons = <<>> THEN EmptyMesh
  ELSE addPolygonToMesh(MeshOf(SubSeq(polygons, 1, Len(polygons) - 1)),
                        polygons[Len(polygons)])
ClusterMeshes == {MeshOf(q) : q \in SeqsUpTo(ClusterPolygons, MaxClusterPolygons)}
TriangleClusters ==
  {[cluster_id_ |-> 2, triangle_ids_ |-> t] :
     t \in SeqsUpTo(0..MaxClusterPolygons - 1, MaxTriangleIds)}
VioTables == {Table(k, {}) : k \in {LmkIds, {1, 2, 3}, {2, 4}}}
PriorLmkIds == {<<>>, <<2, 7>>}

InitExtract ==
  /\ FLAGS \in {f \in Flags : f = [DefaultFlags EXCEPT !.add_extra_lmks_from_stereo =
                                                         f.add_extra_lmks_from_stereo]}
  /\ mesh_ \in ClusterMeshes
  /\ calls = 0
  /\ aborted = FALSE
  /\ last = NoFrame
  /\ prev_mesh = EmptyMesh
  /\ repeated = FALSE
  /\ \E c \in TriangleClusters, t \in VioTables, l \in PriorLmkIds :
       call = [op |-> "extractLmkIdsFromTriangleCluster", triangle_cluster |-> c,
               points_with_id_vio |-> t, lmk_ids |-> l]
  /\ ret = NoRet
  /\ NoPlanes

ExtractLmkIdsFromTriangleClusterCall ==
  /\ call.op = "extractLmkIdsFromTriangleCluster"
  /\ ~ret.done
  /\ \E r \in {extractLmkIdsFromTriangleCluster(mesh_, call.triangle_cluster,
                                                 call.points_with_id_vio,
                                                 call.lmk_ids, FLAGS)} :
       /\ ret' = [done |-> TRUE, v |-> r.lmk_ids]
       /\ aborted' = r.abort
  /\ UNCHANGED <<FLAGS, call, meshVars, planeVars>>

NextExtract == ExtractLmkIdsFromTriangleClusterCall
SpecExtract == InitExtract /\ [][NextExtract]_vars

(***************************************************************************)
(* Claims about extractLmkIdsFromTriangleCluster                           *)
(***************************************************************************)
Extracted == call.op = "extractLmkIdsFromTriangleCluster" /\ ret.done /\ ~aborted

\* The ids of the vertices of the named polygons, read off the mesh in the
\* order of the triangle ids.
NamedLmkIds ==
  [n \in 1..3 * Len(call.triangle_cluster.triangle_ids_) |->
     mesh_.polygons[call.triangle_cluster.triangle_ids_[((n - 1) \div 3) + 1] + 1]
                   [((n - 1) % 3) + 1]]
Emitting(id) ==
  FLAGS.add_extra_lmks_from_stereo => id \in DOMAIN call.points_with_id_vio
FirstOccurrence(id) ==
  CHOOSE n \in DOMAIN NamedLmkIds :
    NamedLmkIds[n] = id /\ \A m \in 1..n - 1 : NamedLmkIds[m] # id

\* C14: extractLmkIdsFromTriangleCluster returns the landmark ids of the
\* vertices of the polygons the cluster names (with
\* add_extra_lmks_from_stereo only those that are keys of the VIO table),
\* each once, in the order of their first occurrence, and nothing of what the
\* output list held before.
C14_ExtractedIdsOnceInFirstOccurrenceOrder ==
  Extracted =>
    /\ Range(ret.v) = {NamedLmkIds[n] : n \in {m \in DOMAIN NamedLmkIds :
                                                 Emitting(NamedLmkIds[m])}}
    /\ \A a, b \in 1..Len(ret.v) :
         a < b => FirstOccurrence(ret.v[a]) < FirstOccurrence(ret.v[b])

\* A cluster naming two polygons that share vertices, one id filtered by the
\* VIO table, and an output list that held ids before.
C14_Witness ==
  /\ Extracted
  /\ FLAGS.add_extra_lmks_from_stereo
  /\ call.lmk_ids # <<>>
  /\ Len(ret.v) >= 2
  /\ ret.v[1] > ret.v[2]
  /\ \E n \in DOMAIN NamedLmkIds : ~Emitting(NamedLmkIds[n])
  /\ \E n, m \in DOMAIN NamedLmkIds : n # m /\ NamedLmkIds[n] = NamedLmkIds[m]

(***************************************************************************)
(* cluster_planes_from_mesh on a mesh of terraces                          *)
(***************************************************************************)
\* Level triangles at heights 0, 2, 4 and two at height 6, and a wall.
TerracePolygons ==
  <<<<Vertex(1, <<0, 0, 0>>), Vertex(2, <<4, 0, 0>>), Vertex(3, <<0, 4, 0>>)>>,
    <<Vertex(4, <<0, 0, 2>>), Vertex(5, <<4, 0, 2>>), Vertex(6, <<0, 4, 2>>)>>,
    <<Vertex(7, <<0, 0, 4>>), Vertex(8, <<4, 0, 4>>), Vertex(9, <<0, 4, 4>>)>>,
    <<Vertex(10, <<0, 0, 6>>), Vertex(11, <<4, 0, 6>>), Vertex(12, <<0, 4, 6>>)>>,
    <<Vertex(11, <<4, 0, 6>>), Vertex(13, <<4, 4, 6>>), Vertex(12, <<0, 4, 6>>)>>,
    <<Vertex(14, <<1, 0, 0>>), Vertex(15, <<1, 4, 0>>), Vertex(16, <<1, 0, 4>>)>>>>
\* The polygons of TerracePolygons at the positions in S, in their order.
TerraceMesh(S) ==
  LET Chosen(k) == k \in S IN
  MeshOf([n \in 1..Cardinality(S) |->
            TerracePolygons[SelectSeq([k \in 1..Len(TerracePolygons) |-> k], Chosen)[n]]])
TerraceMeshes == {TerraceMesh(S) : S \in SUBSET (1..Len(TerracePolygons))}
\* The landmark table of the frame: the landmarks of all the polygons.
TerraceTable ==
  [id \in 1..16 |->
     LET v == CHOOSE v \in UNION {Range(TerracePolygons[k]) : k \in 1..Len(TerracePolygons)} :
                v.lmk_id = id
     IN  v.pos]
\* The flags that vary here: clustered points, the window of the z
\* histogram, its minimum separation, the number of peaks to select.
TerraceFlagChoices ==
  {<<TRUE, 1, <<3, 1>>, 3>>, <<FALSE, 1, <<3, 1>>, 3>>, <<FALSE, 2, <<3, 1>>, 1>>,
   <<FALSE, 1, <<-1, 1>>, 2>>, <<TRUE, 1, <<5, 1>>, 3>>}
TerraceFlags ==
  {[PlaneFlagsOf(<<FALSE, h[1], FALSE, h[2], h[3]>>) EXCEPT
      !.z_histogram_max_number_of_peaks_to_select = h[4]] : h \in TerraceFlagChoices}

InitTerraces ==
  /\ FLAGS \in TerraceFlags
  /\ mesh_ \in TerraceMeshes
  /\ calls = 0
  /\ aborted = FALSE
  /\ last = [NoFrame EXCEPT !.points_with_id_VIO = TerraceTable]
  /\ prev_mesh = EmptyMesh
  /\ repeated = FALSE
  /\ call = NoCall
  /\ ret = NoRet
  /\ NoPlanes

NextTerraces == ClusterPlanesFromMesh
SpecTerraces == InitTerraces /\ [][NextTerraces]_vars

AppendedAfterPlanes == Clustered /\ Appended # <<>> /\ cluster.planes # <<>>

\* C16 as stated: a new plane that is not associated is appended with the
\* index of the most recent plane of the list plus one, whatever happened in
\* the frames in between.
C16_AppendedIndexFollowsLastPlane ==
  AppendedAfterPlanes =>
    Appended[1].plane_symbol = cluster.planes[Len(cluster.planes)].plane_symbol + 1

\* C16 as the code has it: a new plane that is not associated is appended
\* with the value the counter had when the plane was segmented, which is the
\* counter at the start of the call plus the number of planes the call
\* segmented before it, associated or not; the index is larger than that of
\* every plane of the list, and the counter ends past all segmented planes.
C16_AppendedIndexIsCounterWhenSegmented ==
  Clustered =>
    /\ \A k \in 1..Len(Appended) :
         \E j \in 1..Len(cluster.new_planes) :
           /\ Identity(Appended[k]) = Identity(cluster.new_planes[j])
           /\ Appended[k].plane_symbol = cluster.plane_id + j - 1
    /\ \A k \in 1..Len(Appended), n \in 1..Len(cluster.planes) :
         Appended[k].plane_symbol > cluster.planes[n].plane_symbol
    /\ static_plane_id = cluster.plane_id + Len(cluster.new_planes)

\* A plane appended on its own by a later call, more than one past the last
\* plane of the list: planes segmented in between were associated.
C16_Witness ==
  /\ AppendedAfterPlanes
  /\ clusters >= 2
  /\ Len(cluster.new_planes) = 1
  /\ Appended[1].plane_symbol > cluster.planes[Len(cluster.planes)].plane_symbol + 1

(***************************************************************************)
(* The peak-cleaning pass of segmentHorizontalPlanes on its own            *)
(***************************************************************************)
MaxPeaks == 4
PeakSupports == {3, 4, 6}
\* Peak lists ordered by value: the bins of a histogram in ascending order,
\* a bin possibly reported more than once, each bin with its support.
PeakLists(flags) ==
  {[k \in 1..Len(q) |-> PeakInfo(q[k], sup[q[k]], ZBinCenter(q[k], flags))] :
     q \in {r \in SeqsUpTo(0..(flags.z_histogram_bins - 1), MaxPeaks) :
              \A k \in 1..Len(r) - 1 : r[k] <= r[k + 1]},
     sup \in [0..(flags.z_histogram_bins - 1) -> PeakSupports]}
PeakFlags ==
  {[PlaneFlagsOf(<<FALSE, FALSE, FALSE, 1, <<3, 1>>>>) EXCEPT
      !.z_histogram_min_separation = m] : m \in {<<3, 1>>, <<5, 1>>, <<-1, 1>>}}

InitPeaks ==
  /\ FLAGS \in PeakFlags
  /\ mesh_ = EmptyMesh
  /\ calls = 0
  /\ aborted = FALSE
  /\ last = NoFrame
  /\ prev_mesh = EmptyMesh
  /\ repeated = FALSE
  /\ \E peaks \in PeakLists(FLAGS) : call = [op |-> "cleanPeaks", peaks |-> peaks]
  /\ ret = NoRet
  /\ NoPlanes

\* The first loop of segmentHorizontalPlanes on the peaks of the call.
CleanPeaksCall ==
  /\ call.op = "cleanPeaks"
  /\ ~ret.done
  /\ \E ub \in DanglingOutcomes :
       \E c \in {CleanPeaks(call.peaks, FLAGS, ub)} :
         /\ ret' = [done |-> TRUE, v |-> Peaks(c)]
         /\ aborted' = c.abort
  /\ UNCHANGED <<FLAGS, call, meshVars, planeVars>>

NextPeaks == CleanPeaksCall
SpecPeaks == InitPeaks /\ [][NextPeaks]_vars

(***************************************************************************)
(* Claims about the peak-cleaning pass                                     *)
(***************************************************************************)
PeaksCleaned ==
  call.op = "cleanPeaks" /\ ret.done /\ RatLt(<<0, 1>>, FLAGS.z_histogram_min_separation)
TooClose(p, q) ==
  RatLt(RatAbsDiff(p.value_, q.value_), FLAGS.z_histogram_min_separation)

\* C17: with min_separation > 0 the pass ends, and of two peaks within
\* min_separation the one with less support is the one deleted: a peak that
\* does not survive is within min_separation of a peak of the list with at
\* least its support, and the peak with the strictly greatest support of the
\* list survives.
C17_LargerSupportSurvives ==
  PeaksCleaned =>
    /\ ~aborted
    /\ \A k \in 1..Len(call.peaks) :
         ~InSeq(call.peaks[k], ret.v) =>
           \E j \in 1..Len(call.peaks) :
             /\ call.peaks[j] # call.peaks[k]
             /\ TooClose(call.peaks[j], call.peaks[k])
             /\ call.peaks[j].support_ >= call.peaks[k].support_
    /\ \A k \in 1..Len(call.peaks) :
         (\A j \in 1..Len(call.peaks) :
            call.peaks[j] = call.peaks[k] \/ call.peaks[j].support_ < call.peaks[k].support_)
           => InSeq(call.peaks[k], ret.v)

\* C18: with min_separation > 0 no two peaks that survive the pass have
\* values closer than min_separation.
C18_SurvivorsAreSeparated ==
  PeaksCleaned /\ ~aborted =>
    \A j, k \in 1..Len(ret.v) : j # k => ~TooClose(ret.v[j], ret.v[k])

(***************************************************************************)
(* updatePolygonMeshToTimeHorizon on its own                               *)
(***************************************************************************)
MaxPrunePolygons == 3
\* The positions the mesh holds from the frames before: landmark 4 has moved
\* since, landmark 9 is in no table.
OldPos == [id \in LmkIds \cup {9} |->
             IF id = 4 THEN <<4, 3, 4>> ELSE IF id = 9 THEN <<0, 4, 4>> ELSE BasePos[id]]
PrunePolygons ==
  {<<Vertex(a[1], OldPos[a[1]]), Vertex(a[2], OldPos[a[2]]), Vertex(a[3], OldPos[a[3]])>> :
     a \in {<<1, 2, 3>>, <<1, 2, 4>>, <<1, 2, 9>>, <<2, 3, 4>>}}
PruneMeshes == {MeshOf(q) : q \in SeqsUpTo(PrunePolygons, MaxPrunePolygons)}

InitPrune ==
  /\ FLAGS \in {f \in Flags : ~f.add_extra_lmks_from_stereo}
  /\ mesh_ \in PruneMeshes
  /\ calls = 0
  /\ aborted = FALSE
  /\ last = NoFrame
  /\ prev_mesh = EmptyMesh
  /\ repeated = FALSE
  /\ \E t \in Tables, pose \in Poses :
       call = [op |-> "updatePolygonMeshToTimeHorizon", points_with_id_map |-> t,
               pose |-> pose]
  /\ ret = NoRet
  /\ NoPlanes

UpdatePolygonMeshToTimeHorizonCall ==
  /\ call.op = "updatePolygonMeshToTimeHorizon"
  /\ ~ret.done
  /\ mesh_' = updatePolygonMeshToTimeHorizon(mesh_, call.points_with_id_map,
                                             Thresholds(FLAGS, call.pose),
                                             FLAGS.reduce_mesh_to_time_horizon)
  /\ prev_mesh' = mesh_
  /\ ret' = [done |-> TRUE, v |-> FALSE]
  /\ UNCHANGED <<FLAGS, aborted, call, calls, last, repeated, planeVars>>

NextPrune == UpdatePolygonMeshToTimeHorizonCall
SpecPrune == InitPrune /\ [][NextPrune]_vars

(***************************************************************************)
(* Claims about updatePolygonMeshToTimeHorizon                             *)
(***************************************************************************)
Pruned == call.op = "updatePolygonMeshToTimeHorizon" /\ ret.done
InTable(id) == id \in DOMAIN call.points_with_id_map
\* Polygon i of the mesh the call found, with the positions of the table
\* where the table has the landmark.
RefreshedPolygon(i) ==
  [j \in 1..3 |->
     LET id == prev_mesh.polygons[i][j] IN
     Vertex(id, IF InTable(id) THEN ToFloat3(call.points_with_id_map[id])
                ELSE prev_mesh.vertices[id])]
InTimeHorizon(i) ==
  FLAGS.reduce_mesh_to_time_horizon => \A j \in 1..3 : InTable(prev_mesh.polygons[i][j])
\* Side ratio and largest side, whatever the pose and whichever value
\* switches the elongation check off.
PassesRatioAndSide(polygon) ==
  \A pose \in Poses, off \in Disabled :
    ~isBadTriangle(polygon, pose, FLAGS.min_ratio_btw_largest_smallest_side, off,
                   FLAGS.max_triangle_side)
KeptByPrune(i) == InTimeHorizon(i) /\ PassesRatioAndSide(RefreshedPolygon(i))
PruneSurvivors == SelectSeq([i \in 1..Len(prev_mesh.polygons) |-> i], KeptByPrune)

\* C19: updatePolygonMeshToTimeHorizon leaves exactly the polygons of the
\* mesh it found that (a) have their three landmarks in the table, or all of
\* them when reduce_mesh_to_time_horizon is off, and (b) with their positions
\* refreshed from the table pass isBadTriangle on side ratio and largest side
\* without the elongation check; in their order, with the refreshed
\* positions, all read from the mesh as it was before the call.
C19_PruneKeepsInHorizonGoodPolygons ==
  Pruned =>
    Polygons(mesh_) = [k \in 1..Len(PruneSurvivors) |-> RefreshedPolygon(PruneSurvivors[k])]

\* One polygon left the time horizon, one turned bad with its refreshed
\* positions, and one stayed, with a vertex that moved.
C19_Witness ==
  /\ Pruned /\ FLAGS.reduce_mesh_to_time_horizon
  /\ \E i \in 1..Len(prev_mesh.polygons) : ~InTimeHorizon(i)
  /\ \E i \in 1..Len(prev_mesh.polygons) :
       /\ InTimeHorizon(i) /\ ~PassesRatioAndSide(RefreshedPolygon(i))
       /\ PassesRatioAndSide(getPolygon(prev_mesh, i))
  /\ \E k \in 1..getNumberOfPolygons(mesh_) :
       getPolygon(mesh_, k) # getPolygon(prev_mesh, PruneSurvivors[k])

(***************************************************************************)
(* segmentNewPlanes on its own                                             *)
(***************************************************************************)
MaxWalls == 2
VoteCounts == {0, 3, 6}
\* The z components: per bin of the z histogram so many samples at its centre.
RECURSIVE ZComponents(_, _, _)
ZComponents(votes, b, flags) ==
  IF b >= flags.z_histogram_bins THEN <<>>
  ELSE [k \in 1..votes[b] |-> ZBinCenter(b, flags)[1] \div ZBinCenter(b, flags)[2]]
         \o ZComponents(votes, b + 1, flags)
\* Wall samples: the normal along x at distance 1, a normal in the second
\* quadrant at distance -3.
WallSamples ==
  {[theta |-> <<1, 0>>, distance |-> [num |-> 1, nsq |-> 1]],
   [theta |-> <<-1, 1>>, distance |-> [num |-> -6, nsq |-> 4]]}
\* The flags that vary here: the window of the z histogram, its minimum
\* separation, the number of peaks to select.
SegmentFlagChoices ==
  {<<1, <<3, 1>>, 3>>, <<1, <<-1, 1>>, 2>>, <<2, <<-1, 1>>, 3>>, <<1, <<-1, 1>>, 0>>,
   <<1, <<5, 1>>, 1>>}
SegmentFlags ==
  {[PlaneFlagsOf(<<FALSE, FALSE, FALSE, h[1], h[2]>>) EXCEPT
      !.z_histogram_max_number_of_peaks_to_select = h[3]] : h \in SegmentFlagChoices}

InitSegment ==
  /\ FLAGS \in SegmentFlags
  /\ mesh_ = EmptyMesh
  /\ calls = 0
  /\ aborted = FALSE
  /\ last = NoFrame
  /\ prev_mesh = EmptyMesh
  /\ repeated = FALSE
  /\ \E votes \in [0..(FLAGS.z_histogram_bins - 1) -> VoteCounts],
        walls \in SeqsUpTo(WallSamples, MaxWalls) :
       call = [op |-> "segmentNewPlanes", z_components |-> ZComponents(votes, 0, FLAGS),
               walls |-> walls]
  /\ ret = NoRet
  /\ planes_ = <<>>
  /\ static_plane_id \in {0, 7}
  /\ mesher = 1
  /\ created = <<>>
  /\ clusters = 0
  /\ cluster = [NoCluster EXCEPT !.plane_id = static_plane_id]

\* One call of segmentNewPlanes; cluster.plane_id keeps the counter the call
\* found.
SegmentNewPlanesCall ==
  /\ call.op = "segmentNewPlanes"
  /\ ~ret.done
  /\ \E ub \in DanglingOutcomes :
       \E r \in {segmentNewPlanes(static_plane_id, call.z_components, call.walls,
                                  FLAGS, ub)} :
         /\ ret' = [done |-> TRUE, v |-> r.new_segmented_planes]
         /\ static_plane_id' = r.plane_id
         /\ aborted' = r.abort
  /\ UNCHANGED <<FLAGS, call, meshVars, planes_, mesher, created, clusters, cluster>>

NextSegment == SegmentNewPlanesCall
SpecSegment == InitSegment /\ [][NextSegment]_vars

(***************************************************************************)
(* Claims about segmentNewPlanes                                           *)
(***************************************************************************)
Segmented == call.op = "segmentNewPlanes" /\ ret.done /\ ~aborted
\* The peak lists the first loop of segmentHorizontalPlanes can leave.
CleanedPeakLists ==
  {Peaks(c) : c \in {d \in {CleanPeaks(getLocalMaximum1D(
                                          calculateHistogram1D(call.z_components, FLAGS),
                                          FLAGS), FLAGS, ub) : ub \in DanglingOutcomes} :
                       ~d.abort}}
HorizontalCount == Cardinality({k \in 1..Len(ret.v) : ret.v[k].triangle_cluster_.cluster_id_ = 2})
\* The first n planes are made of n different peaks of the list, the
\* strongest first, and no peak left over is stronger than one taken.
TakenBySupport(cleaned, n) ==
  \E f \in [1..n -> 1..Len(cleaned)] :
    /\ \A j, k \in 1..n : j # k => f[j] # f[k]
    /\ \A k \in 1..n : ret.v[k].distance_ = cleaned[f[k]].value_
    /\ \A j, k \in 1..n : j < k => cleaned[f[j]].support_ >= cleaned[f[k]].support_
    /\ \A k \in 1..n, m \in 1..Len(cleaned) :
         (\A j \in 1..n : f[j] # m) => cleaned[m].support_ <= cleaned[f[k]].support_

\* C20: a call emits at most z_histogram_max_number_of_peaks_to_select
\* horizontal planes, made of different peaks of the cleaned list in order of
\* non-increasing support, each with normal (0,0,1), the value of its peak as
\* distance and cluster-id 2; the walls come after them with cluster-id 1;
\* and the planes carry the consecutive values of the counter.
C20_HorizontalPlanesBySupportBeforeWalls ==
  Segmented =>
    /\ HorizontalCount <= Max2(FLAGS.z_histogram_max_number_of_peaks_to_select, 0)
    /\ \E cleaned \in CleanedPeakLists :
         /\ HorizontalCount
              = Min2(Max2(FLAGS.z_histogram_max_number_of_peaks_to_select, 0), Len(cleaned))
         /\ TakenBySupport(cleaned, HorizontalCount)
    /\ \A k \in 1..Len(ret.v) :
         /\ ret.v[k].plane_symbol = cluster.plane_id + k - 1
         /\ ret.v[k].triangle_cluster_.cluster_id_ = IF k <= HorizontalCount THEN 2 ELSE 1
         /\ k <= HorizontalCount => ret.v[k].normal_ = <<0, 0, 1>>
    /\ static_plane_id = cluster.plane_id + Len(ret.v)

\* Two horizontal planes and a wall, the stronger peak taken first although
\* it comes later in the list, and a peak left over.
C20_Witness ==
  /\ Segmented
  /\ HorizontalCount = 2 /\ Len(ret.v) > 2
  /\ RatLt(ret.v[2].distance_, ret.v[1].distance_)
  /\ \A cleaned \in CleanedPeakLists : Len(cleaned) > 2
  /\ cluster.plane_id > 0

(***************************************************************************)
(* The walk of segmentPlanesInMesh over walls, levels and seed planes      *)
(***************************************************************************)
\* A level triangle, a wall at x = 1 wound both ways, a wall at y = 2 wound
\* both ways, three aligned points, a triangle tilted by 45 degrees, and
\* the level triangle wound the other way.
MaxWalkPolygons == 3
WalkPolygons ==
  <<<<Vertex(1, <<0, 0, 0>>), Vertex(2, <<4, 0, 0>>), Vertex(3, <<0, 4, 0>>)>>,
    <<Vertex(4, <<1, 0, 0>>), Vertex(5, <<1, 4, 0>>), Vertex(6, <<1, 0, 4>>)>>,
    <<Vertex(4, <<1, 0, 0>>), Vertex(6, <<1, 0, 4>>), Vertex(5, <<1, 4, 0>>)>>,
    <<Vertex(7, <<0, 2, 0>>), Vertex(8, <<4, 2, 0>>), Vertex(9, <<0, 2, 4>>)>>,
    <<Vertex(7, <<0, 2, 0>>), Vertex(9, <<0, 2, 4>>), Vertex(8, <<4, 2, 0>>)>>,
    <<Vertex(1, <<0, 0, 0>>), Vertex(2, <<4, 0, 0>>), Vertex(10, <<8, 0, 0>>)>>,
    <<Vertex(2, <<4, 0, 0>>), Vertex(11, <<0, 0, 4>>), Vertex(12, <<4, 4, 0>>)>>,
    <<Vertex(1, <<0, 0, 0>>), Vertex(3, <<0, 4, 0>>), Vertex(2, <<4, 0, 0>>)>>>>
WalkMesh(S) ==
  LET Chosen(k) == k \in S IN
  MeshOf([n \in 1..Cardinality(S) |->
            WalkPolygons[SelectSeq([k \in 1..Len(WalkPolygons) |-> k], Chosen)[n]]])
WalkMeshes ==
  {WalkMesh(S) : S \in {T \in SUBSET (1..Len(WalkPolygons)) : Cardinality(T) <= MaxWalkPolygons}}
WalkTable ==
  [id \in 1..12 |->
     LET v == CHOOSE v \in UNION {Range(WalkPolygons[k]) : k \in 1..Len(WalkPolygons)} :
                v.lmk_id = id
     IN  v.pos]
\* The VIO table: all the landmarks, or those of the first polygons only.
WalkTables == {WalkTable, [id \in {1, 2, 4, 5, 6} |-> WalkTable[id]]}
\* Planes the caller hands in: the level z = 0, the wall x = 1, the wall
\* x = 5/4, the wall y = 2 seen from behind; they carry ids of an earlier
\* call.
WalkSeedPlane(plane_symbol, normal, distance, cluster_id) ==
  [Plane(plane_symbol, normal, distance, <<12, 3>>, cluster_id) EXCEPT
     !.triangle_cluster_.triangle_ids_ = <<6, 0>>]
WalkSeedPlanes ==
  {<<>>,
   <<WalkSeedPlane(0, <<0, 0, 1>>, <<0, 1>>, 2)>>,
   <<WalkSeedPlane(0, <<1, 0, 0>>, <<1, 1>>, 1)>>,
   <<WalkSeedPlane(0, <<1, 0, 0>>, <<1, 1>>, 1), WalkSeedPlane(1, <<1, 0, 0>>, <<5, 4>>, 1)>>,
   <<WalkSeedPlane(0, <<0, 0, 1>>, <<0, 1>>, 2), WalkSeedPlane(1, <<1, 0, 0>>, <<1, 1>>, 1),
     WalkSeedPlane(2, <<0, -1, 0>>, <<-2, 1>>, 1)>>}
\* The flags that vary here: stereo landmarks, clustered points, the
\* tolerance of the walls.
WalkFlagChoices ==
  {<<FALSE, TRUE, Tenth>>, <<FALSE, FALSE, Tenth>>, <<TRUE, TRUE, <<9, 10>>>>,
   <<FALSE, FALSE, <<9, 10>>>>, <<FALSE, FALSE, <<99, 100>>>>}
WalkFlags ==
  {[PlaneFlagsOf(<<h[1], h[2], FALSE, 1, <<3, 1>>>>) EXCEPT
      !.normal_tolerance_walls = h[3]] : h \in WalkFlagChoices}

InitWalk ==
  /\ FLAGS \in WalkFlags
  /\ mesh_ \in WalkMeshes
  /\ calls = 0
  /\ aborted = FALSE
  /\ \E t \in WalkTables : last = [NoFrame EXCEPT !.points_with_id_VIO = t]
  /\ prev_mesh = EmptyMesh
  /\ repeated = FALSE
  /\ call = NoCall
  /\ ret = NoRet
  /\ planes_ \in WalkSeedPlanes
  /\ static_plane_id = Len(planes_)
  /\ mesher = 1
  /\ created = <<>>
  /\ clusters = 0
  /\ cluster = NoCluster

NextWalk == ClusterPlanesFromMesh
SpecWalk == InitWalk /\ [][NextWalk]_vars

(***************************************************************************)
(* Claims about the walk                                                   *)
(***************************************************************************)
WalkDone == clusters > 0 /\ ~cluster.abort
WalkPolygon(i) == getPolygon(cluster.mesh, i)
WalkNormal(i) ==
  calculateNormal(WalkPolygon(i)[1].pos, WalkPolygon(i)[2].pos, WalkPolygon(i)[3].pos)
\* Polygon i (counted from 1) is in the cluster of a seed plane after the call.
OnSeedPlane(i) ==
  \E k \in 1..Len(cluster.planes) : InSeq(i - 1, planes_[k].triangle_cluster_.triangle_ids_)
Level(i) ==
  /\ WalkNormal(i).ok
  /\ isNormalAroundAxis(Vertical, WalkNormal(i).normal, FLAGS.normal_tolerance_horizontal_surface)
Upright(i) ==
  /\ WalkNormal(i).ok
  /\ isNormalPerpendicularToAxis(Vertical, WalkNormal(i).normal, FLAGS.normal_tolerance_walls)
Unclustered(i) == FLAGS.only_use_non_clustered_points => ~OnSeedPlane(i)
\* The polygons of the mesh that satisfy Test, in the order of the mesh.
WalkSelect(Test(_)) ==
  SelectSeq([i \in 1..getNumberOfPolygons(cluster.mesh) |-> i], Test)
LevelContributors == LET T(i) == Level(i) /\ Unclustered(i) IN WalkSelect(T)
UprightContributors == LET T(i) == Upright(i) /\ Unclustered(i) IN WalkSelect(T)

\* C21: the z buffer holds the three z coordinates of exactly the level
\* polygons, and the wall buffer one sample of exactly the upright polygons,
\* that are on no seed plane when only_use_non_clustered_points is set, and
\* of all of them, clustered or not, when it is not.
C21_ClusteredPolygonsGiveNoSamples ==
  WalkDone =>
    /\ cluster.z_components =
         [n \in 1..(3 * Len(LevelContributors)) |->
            WalkPolygon(LevelContributors[((n - 1) \div 3) + 1])[((n - 1) % 3) + 1].pos[3]]
    /\ Len(cluster.walls) = Len(UprightContributors)
    /\ \A n \in 1..Len(cluster.walls) :
         LET i == UprightContributors[n]
         IN  /\ Abs(cluster.walls[n].distance.num)
                  = Abs(Dot(WalkPolygon(i)[1].pos, WalkNormal(i).normal))
             /\ cluster.walls[n].distance.nsq = NormSq(WalkNormal(i).normal)
C21_Witness ==
  /\ WalkDone
  /\ FLAGS.only_use_non_clustered_points
  /\ \E i, j \in 1..getNumberOfPolygons(cluster.mesh) :
       /\ Level(i) /\ OnSeedPlane(i)
       /\ Upright(j) /\ OnSeedPlane(j)
  /\ Len(cluster.walls) > 0

\* theta = atan2(y, x) lies in [0, pi).
InHalfTurn(theta) == theta[2] > 0 \/ (theta[2] = 0 /\ theta[1] > 0)
\* C22: every sample of the wall buffer has its theta in [0, pi), so that a
\* wall and the same wall wound the other way give the same sample.
C22_WallSamplesHaveThetaInHalfTurn ==
  WalkDone => \A n \in 1..Len(cluster.walls) : InHalfTurn(cluster.walls[n].theta)

\* The normal of polygon i is the vertical or its opposite.
ExactlyVertical(i) ==
  WalkNormal(i).ok /\ WalkNormal(i).normal \in {Vertical, Neg(Vertical)}
\* C23: a polygon whose normal is exactly vertical gives no wall sample, and
\* getLongitude is never handed a normal whose equatorial projection is
\* zero, whatever normal_tolerance_walls in (0, 1) is in force.
C23_VerticalNormalNeverReachesGetLongitude ==
  clusters > 0 =>
    /\ \A n \in 1..Len(cluster.walls) : cluster.walls[n].theta # <<0, 0>>
    /\ Len(cluster.walls) = Len(UprightContributors)
    /\ \A n \in 1..Len(UprightContributors) : ~ExactlyVertical(UprightContributors[n])
C23_Witness ==
  /\ WalkDone
  /\ FLAGS.normal_tolerance_walls = <<99, 100>>
  /\ \E i, j \in 1..getNumberOfPolygons(cluster.mesh) :
       /\ WalkNormal(i).normal = Vertical /\ WalkNormal(j).normal = Neg(Vertical)
       /\ ~OnSeedPlane(i) /\ ~OnSeedPlane(j)
  /\ Len(cluster.walls) > 0

(***************************************************************************)
(* extractLmkIdsFromVectorOfTriangleClusters on its own                    *)
(***************************************************************************)
MaxVectorClusters == 2
MaxVectorTriangleIds == 2
VectorClusters ==
  SeqsUpTo({[cluster_id_ |-> 2, triangle_ids_ |-> t] :
              t \in SeqsUpTo(0..MaxClusterPolygons - 1, MaxVectorTriangleIds)},
           MaxVectorClusters)

InitExtractVector ==
  /\ FLAGS \in {f \in Flags : f = [DefaultFlags EXCEPT !.add_extra_lmks_from_stereo =
                                                         f.add_extra_lmks_from_stereo]}
  /\ mesh_ \in ClusterMeshes
  /\ calls = 0
  /\ aborted = FALSE
  /\ last = NoFrame
  /\ prev_mesh = EmptyMesh
  /\ repeated = FALSE
  /\ \E c \in VectorClusters, t \in VioTables, l \in PriorLmkIds :
       call = [op |-> "extractLmkIdsFromVectorOfTriangleClusters", triangle_clusters |-> c,
               points_with_id_vio |-> t, lmk_ids |-> l]
  /\ ret = NoRet
  /\ NoPlanes

ExtractLmkIdsFromVectorOfTriangleClustersCall ==
  /\ call.op = "extractLmkIdsFromVectorOfTriangleClusters"
  /\ ~ret.done
  /\ \E r \in {extractLmkIdsFromVectorOfTriangleClusters(mesh_, call.triangle_clusters,
                                                          call.points_with_id_vio,
                                                          call.lmk_ids, FLAGS)} :
       /\ ret' = [done |-> TRUE, v |-> r.lmk_ids]
       /\ aborted' = r.abort
  /\ UNCHANGED <<FLAGS, call, meshVars, planeVars>>

NextExtractVector == ExtractLmkIdsFromVectorOfTriangleClustersCall
SpecExtractVector == InitExtractVector /\ [][NextExtractVector]_vars

(***************************************************************************)
(* Claims about extractLmkIdsFromVectorOfTriangleClusters                  *)
(***************************************************************************)
VectorExtracted ==
  call.op = "extractLmkIdsFromVectorOfTriangleClusters" /\ ret.done /\ ~aborted
\* The ids of the vertices of the polygons cluster c names, kept by the
\* filter on the VIO table.
ClusterLmkIds(c) ==
  {id \in UNION {Range(mesh_.polygons[call.triangle_clusters[c].triangle_ids_[k] + 1]) :
                   k \in 1..Len(call.triangle_clusters[c].triangle_ids_)} :
     FLAGS.add_extra_lmks_from_stereo => id \in DOMAIN call.points_with_id_vio}

\* C24: extractLmkIdsFromVectorOfTriangleClusters puts out the landmark ids
\* of the polygons of all the clusters of the vector, each once.
C24_VectorGivesIdsOfAllClusters ==
  VectorExtracted =>
    /\ Range(ret.v) = UNION {ClusterLmkIds(c) : c \in 1..Len(call.triangle_clusters)}
    /\ \A a, b \in 1..Len(ret.v) : a # b => ret.v[a] # ret.v[b]

(***************************************************************************)
(* The landmark table update_mesh_3d meshes with                           *)
(***************************************************************************)
MaxKeypoints == 3
\* Frames of MaxKeypoints keypoints: each carries no landmark, landmark 1 or
\* landmark 5, with a right keypoint that is valid or not.
StereoFrames ==
  {[landmarks_ |-> l, right_keypoints_status_ |-> st,
    keypoints_3d_ |-> [i \in 1..MaxKeypoints |-> <<i, 2 * i, 4 + i>>]] :
     l \in [1..MaxKeypoints -> {-1, 1, 5}],
     st \in [1..MaxKeypoints -> {"VALID", "NO_RIGHT_RECT"}]}

InitStereo ==
  /\ FLAGS \in {f \in Flags : f = [DefaultFlags EXCEPT !.add_extra_lmks_from_stereo =
                                                         f.add_extra_lmks_from_stereo]}
  /\ mesh_ = EmptyMesh
  /\ calls = 0
  /\ aborted = FALSE
  /\ last = NoFrame
  /\ prev_mesh = EmptyMesh
  /\ repeated = FALSE
  /\ \E t \in Tables, f \in StereoFrames, pose \in Poses :
       call = [op |-> "updateMesh3D", points_with_id_VIO |-> t, stereoFrame |-> f,
               leftCameraPose |-> pose]
  /\ ret = NoRet
  /\ NoPlanes

\* The first part of updateMesh3D, up to the table it hands on;
\* points_with_id_VIO is the caller's table, passed by const reference.
PointsWithIdAllCall ==
  /\ call.op = "updateMesh3D"
  /\ ~ret.done
  /\ ret' = [done |-> TRUE,
             v |-> [points_with_id_all |->
                      PointsWithIdAll(call.points_with_id_VIO, call.stereoFrame,
                                      call.leftCameraPose, FLAGS),
                    points_with_id_VIO |-> call.points_with_id_VIO]]
  /\ UNCHANGED <<FLAGS, call, aborted, meshVars, planeVars>>

NextStereo == PointsWithIdAllCall
SpecStereo == InitStereo /\ [][NextStereo]_vars

(***************************************************************************)
(* Claims about the table                                                  *)
(***************************************************************************)
TableBuilt == call.op = "updateMesh3D" /\ ret.done
\* Keypoint i of the frame carries landmark id with a valid right keypoint
\* and lies at p in the world.
StereoPointOf(id, p) ==
  \E i \in 1..Len(call.stereoFrame.landmarks_) :
    /\ call.stereoFrame.landmarks_[i] = id
    /\ call.stereoFrame.right_keypoints_status_[i] = "VALID"
    /\ p = transform_from(call.leftCameraPose, call.stereoFrame.keypoints_3d_[i])

\* C25: with add_extra_lmks_from_stereo the table used for meshing holds
\* every VIO landmark at its VIO position; any other entry is a landmark
\* other than -1 that is not a VIO key, at the world position of a keypoint
\* of the frame that carries it with a valid right keypoint; the caller's
\* table is as it was.
C25_StereoPointsNeverOverrideVio ==
  (TableBuilt /\ FLAGS.add_extra_lmks_from_stereo) =>
    /\ \A id \in DOMAIN call.points_with_id_VIO :
         /\ id \in DOMAIN ret.v.points_with_id_all
         /\ ret.v.points_with_id_all[id] = call.points_with_id_VIO[id]
    /\ \A id \in (DOMAIN ret.v.points_with_id_all) \ (DOMAIN call.points_with_id_VIO) :
         id # -1 /\ StereoPointOf(id, ret.v.points_with_id_all[id])
    /\ ret.v.points_with_id_VIO = call.points_with_id_VIO
\* The frame carries a VIO landmark at another position, a landmark that is
\* not in the VIO table, and a keypoint without landmark, all three valid.
C25_Witness ==
  /\ TableBuilt /\ FLAGS.add_extra_lmks_from_stereo
  /\ call.stereoFrame.landmarks_ = <<1, 5, -1>>
  /\ \A i \in 1..MaxKeypoints : call.stereoFrame.right_keypoints_status_[i] = "VALID"
  /\ 5 \in DOMAIN ret.v.points_with_id_all
  /\ ~StereoPointOf(1, call.points_with_id_VIO[1])

\* Polygon i (counted from 1) has a normal and is on plane k of the output.
OnOutputPlane(k, i) ==
  /\ WalkNormal(i).ok
  /\ IsPolygonOnPlane(planes_[k], WalkPolygon(i), WalkNormal(i).normal,
                      FLAGS.normal_tolerance_polygon_plane_association,
                      FLAGS.distance_tolerance_polygon_plane_association)
PolygonsOnOutputPlane(k) == LET T(i) == OnOutputPlane(k, i) IN WalkSelect(T)
\* The landmark ids of the vertices of these polygons, those that are not
\* VIO keys left out under add_extra_lmks_from_stereo.
LmkIdsOnOutputPlane(k) ==
  {id \in {WalkPolygon(PolygonsOnOutputPlane(k)[n])[j].lmk_id :
             n \in 1..Len(PolygonsOnOutputPlane(k)), j \in 1..3} :
     FLAGS.add_extra_lmks_from_stereo => id \in DOMAIN cluster.points_with_id_vio}

\* C26: when cluster_planes_from_mesh returns, every plane of the list, seed
\* or appended, names in ascending order exactly the polygons that have a
\* normal and are on the plane, and holds exactly their landmark ids (the
\* VIO keys among them under add_extra_lmks_from_stereo), each once;
\* nothing of an earlier call is left.
C26_MembershipIsThatOfThisMesh ==
  WalkDone =>
    \A k \in 1..Len(planes_) :
      /\ planes_[k].triangle_cluster_.triangle_ids_ =
           [n \in 1..Len(PolygonsOnOutputPlane(k)) |-> PolygonsOnOutputPlane(k)[n] - 1]
      /\ Range(planes_[k].lmk_ids_) = LmkIdsOnOutputPlane(k)
      /\ \A a, b \in 1..Len(planes_[k].lmk_ids_) :
           a # b => planes_[k].lmk_ids_[a] # planes_[k].lmk_ids_[b]
\* A seed plane that came with stale ids and an appended plane, both with
\* polygons, a polygon on two planes, and a landmark left out by the filter.
C26_Witness ==
  /\ WalkDone
  /\ Len(cluster.planes) > 0 /\ Len(planes_) > Len(cluster.planes)
  /\ planes_[1].triangle_cluster_.triangle_ids_ # <<>>
  /\ planes_[Len(planes_)].triangle_cluster_.triangle_ids_ # <<>>
  /\ \E i \in 1..getNumberOfPolygons(cluster.mesh) :
       \E k, l \in 1..Len(planes_) : k # l /\ OnOutputPlane(k, i) /\ OnOutputPlane(l, i)
  /\ \E k \in 1..Len(planes_) :
       Len(planes_[k].lmk_ids_) < 3 /\ planes_[k].triangle_cluster_.triangle_ids_ # <<>>

\* C27: when cluster_planes_from_mesh returns, every triangle id of every
\* plane is an index of a polygon of the mesh, so that
\* extract_lmk_ids_from_triangle_cluster on the cluster of any plane goes
\* through while the mesh is the one the call walked.
C27_TriangleIdsAreIndicesOfTheMesh ==
  (WalkDone /\ mesh_ = cluster.mesh) =>
    \A k \in 1..Len(planes_) :
      /\ \A n \in 1..Len(planes_[k].triangle_cluster_.triangle_ids_) :
           planes_[k].triangle_cluster_.triangle_ids_[n] \in 0..(getNumberOfPolygons(mesh_) - 1)
      /\ ~extractLmkIdsFromTriangleCluster(mesh_, planes_[k].triangle_cluster_,
                                           last.points_with_id_VIO, <<>>, FLAGS).abort
\* A seed plane that came with an id the mesh does not hold, and an appended
\* plane, each naming the last polygon of a mesh of three.
C27_Witness ==
  /\ WalkDone /\ mesh_ = cluster.mesh
  /\ getNumberOfPolygons(mesh_) = MaxWalkPolygons
  /\ Len(cluster.planes) > 0 /\ Len(planes_) > Len(cluster.planes)
  /\ \E k \in 1..Len(cluster.planes), l \in (Len(cluster.planes) + 1)..Len(planes_) :
       /\ InSeq(MaxWalkPolygons - 1, planes_[k].triangle_cluster_.triangle_ids_)
       /\ planes_[l].triangle_cluster_.triangle_ids_ # <<>>

(***************************************************************************)
(* The counter of plane ids over the frames                                *)
(***************************************************************************)
\* C28: the counter of plane ids moves only in a step of
\* cluster_planes_from_mesh, which takes it forward by the number of planes
\* segmented in the call, horizontal and walls, associated or not; a step of
\* update_mesh_3d and the start of a new mesher leave it as it is.
C28_CounterAdvancesByPlanesSegmented ==
  [][/\ static_plane_id' # static_plane_id => clusters' = clusters + 1
     /\ (clusters' = clusters + 1 /\ ~aborted')
          => static_plane_id' = static_plane_id + Len(cluster'.new_planes)
     /\ (calls' # calls \/ mesher' # mesher) => static_plane_id' = static_plane_id]_vars
\* A call segmented a horizontal plane and a wall and appended fewer planes
\* than it segmented, with the counter above zero before it, and the mesh
\* was updated afterwards.
C28_Witness ==
  /\ ~aborted
  /\ cluster.plane_id > 0
  /\ Len(cluster.new_planes) > Len(cluster.new_non_associated_planes)
  /\ \E j, k \in 1..Len(cluster.new_planes) :
       /\ cluster.new_planes[j].triangle_cluster_.cluster_id_ = 2
       /\ cluster.new_planes[k].triangle_cluster_.cluster_id_ = 1
  /\ static_plane_id = cluster.plane_id + Len(cluster.new_planes)
  /\ mesh_ # cluster.mesh

(***************************************************************************)
(* The peak-cleaning pass running to its end                               *)
(***************************************************************************)
\* C29: the peak-cleaning pass runs to its end for every list of peaks and
\* every min_separation: no position outside the peaks is accessed and the
\* process is not stopped.
C29_CleaningRunsToCompletion ==
  (call.op = "cleanPeaks" /\ ret.done) => ~aborted

(***************************************************************************)
(* UtilsOpenCV::FindHighIntensityInTriangle                                *)
(*                                                                         *)
(* Pixel coordinates are rationals <<n, 2>>.  The intersection of a side   *)
(* with a row is computed in doubles; when the exact value lies halfway    *)
(* between two columns the double may fall on either side, and tie is the  *)
(* side it falls on.                                                       *)
(***************************************************************************)
margin == 4
\* std::round of n / d, d > 0: halfway cases go away from zero.
Round(n, d) ==
  IF n >= 0 THEN (2 * n + d) \div (2 * d) ELSE -((d - 2 * n) \div (2 * d))
Halfway(n, d) == (2 * n) % (2 * d) = d
\* Mutant: the intersection with the line through a and b is taken wherever
\* it lies.
SegmentColumnOnLine(r, xa, ya, xb, yb, tie) ==
  IF ya = yb THEN [hit |-> FALSE, x |-> 0]
  ELSE
    LET s == IF ya > yb THEN 1 ELSE -1
        d == s * (ya - yb)
        l == s * (r - yb)
        n == l * xa + (d - l) * xb
    IN  [hit |-> TRUE,
         x |-> IF Halfway(n, d) /\ tie = "down" THEN Round(n, d) - 1 ELSE Round(n, d)]

\* The column in which the side from a to b meets row r: lambda = l / d, and
\* the column is round(lambda * xa + (1 - lambda) * xb) = round(n / d).
SegmentColumn(r, xa, ya, xb, yb, tie) ==
  IF ya = yb THEN [hit |-> FALSE, x |-> 0]
  ELSE
    LET s == IF ya > yb THEN 1 ELSE -1
        d == s * (ya - yb)
        l == s * (r - yb)
        n == l * xa + (d - l) * xb
    IN  IF l < 0 \/ l > d THEN [hit |-> FALSE, x |-> 0]
        ELSE [hit |-> TRUE,
              x |-> IF Halfway(n, d) /\ tie = "down" THEN Round(n, d) - 1 ELSE Round(n, d)]

\* The rounded vertices and their bounding box.
ParseVertices(px_vertices) ==
  LET x0 == Round(px_vertices[1][1], px_vertices[1][2])
      y0 == Round(px_vertices[2][1], px_vertices[2][2])
      x1 == Round(px_vertices[3][1], px_vertices[3][2])
      y1 == Round(px_vertices[4][1], px_vertices[4][2])
      x2 == Round(px_vertices[5][1], px_vertices[5][2])
      y2 == Round(px_vertices[6][1], px_vertices[6][2])
  IN  [x0 |-> x0, y0 |-> y0, x1 |-> x1, y1 |-> y1, x2 |-> x2, y2 |-> y2,
       topLeft_x |-> Min2(x0, Min2(x1, x2)), topLeft_y |-> Min2(y0, Min2(y1, y2)),
       botRight_x |-> Max2(x0, Max2(x1, x2)), botRight_y |-> Max2(y0, Max2(y1, y2))]

\* The extrema of row r: each side that meets the row may widen them.
RowExtrema(p, r, ties) ==
  LET Widen(e, m) ==
        IF e.hit THEN [min_x |-> Min2(m.min_x, e.x), max_x |-> Max2(m.max_x, e.x)] ELSE m
  IN  Widen(SegmentColumn(r, p.x2, p.y2, p.x0, p.y0, ties[3]),
        Widen(SegmentColumn(r, p.x1, p.y1, p.x2, p.y2, ties[2]),
          Widen(SegmentColumn(r, p.x0, p.y0, p.x1, p.y1, ties[1]),
                [min_x |-> p.botRight_x, max_x |-> p.topLeft_x])))

\* img.at<uint8_t>(r, c) of the image the scans run on.
Intensity(r, c) == ((7 * r + 3 * c) % 5) * 50
\* The pixels of row r pushed: columns min_x + margin up to max_x - margin,
\* the last left out, with an intensity above the threshold.
RowKeypoints(r, m, intensityThreshold) ==
  LET High(k) == k[3] > intensityThreshold
      n == Max2(0, (m.max_x - margin) - (m.min_x + margin))
  IN  SelectSeq([k \in 1..n |->
                   <<m.min_x + margin + k - 1, r,
                     Intensity(r, m.min_x + margin + k - 1)>>], High)

PxCols == {<<0, 2>>, <<1, 2>>, <<3, 2>>, <<10, 2>>, <<19, 2>>, <<20, 2>>}
PxRows == {<<0, 2>>, <<2, 2>>, <<3, 2>>, <<6, 2>>}
IntensityThresholds == {-1, 40}

\* The state after the vertices are parsed: r is the row the scan is at,
\* rows the extrema of the rows scanned.
InitTriangleScan ==
  /\ FLAGS = DefaultFlags
  /\ mesh_ = EmptyMesh
  /\ calls = 0
  /\ aborted = FALSE
  /\ last = NoFrame
  /\ prev_mesh = EmptyMesh
  /\ repeated = FALSE
  /\ \E x0 \in PxCols, y0 \in PxRows, x1 \in PxCols, y1 \in PxRows, x2 \in PxCols,
        y2 \in PxRows, t \in IntensityThresholds :
       /\ call = [op |-> "FindHighIntensityInTriangle",
                  px_vertices |-> <<x0, y0, x1, y1, x2, y2>>, intensityThreshold |-> t]
       /\ ret = [done |-> FALSE,
                 v |-> [keypointsWithIntensities |-> <<>>, rows |-> <<>>,
                        r |-> ParseVertices(<<x0, y0, x1, y1, x2, y2>>).topLeft_y]]
  /\ NoPlanes

\* One round of the loop over the rows; the throw stops the process.
ScanRow ==
  /\ call.op = "FindHighIntensityInTriangle"
  /\ ~ret.done /\ ~aborted
  /\ call.intensityThreshold >= 0
  /\ ret.v.r < ParseVertices(call.px_vertices).botRight_y
  /\ \E ties \in [1..3 -> {"down", "up"}] :
       \E m \in {RowExtrema(ParseVertices(call.px_vertices), ret.v.r, ties)} :
         LET p == ParseVertices(call.px_vertices)
             thrown == m.min_x < p.topLeft_x \/ m.max_x > p.botRight_x
         IN  /\ aborted' = thrown
             /\ ret' = [done |-> FALSE,
                        v |-> [keypointsWithIntensities |->
                                 IF thrown THEN ret.v.keypointsWithIntensities
                                 ELSE ret.v.keypointsWithIntensities
                                        \o RowKeypoints(ret.v.r, m, call.intensityThreshold),
                               rows |-> Append(ret.v.rows,
                                               [r |-> ret.v.r, min_x |-> m.min_x,
                                                max_x |-> m.max_x]),
                               r |-> IF thrown THEN ret.v.r ELSE ret.v.r + 1]]
  /\ UNCHANGED <<FLAGS, call, meshVars, planeVars>>

\* The return: at once when the check is disabled, else after the last row.
ReturnKeypoints ==
  /\ call.op = "FindHighIntensityInTriangle"
  /\ ~ret.done /\ ~aborted
  /\ \/ call.intensityThreshold < 0
     \/ ret.v.r >= ParseVertices(call.px_vertices).botRight_y
  /\ ret' = [ret EXCEPT !.done = TRUE]
  /\ UNCHANGED <<FLAGS, call, aborted, meshVars, planeVars>>

NextTriangleScan == ScanRow \/ ReturnKeypoints
SpecTriangleScan == InitTriangleScan /\ [][NextTriangleScan]_vars

(***************************************************************************)
(* Claims about FindHighIntensityInTriangle                                *)
(***************************************************************************)
Scanning == call.op = "FindHighIntensityInTriangle"

\* C30: in every row FindHighIntensityInTriangle scans, the extrema lie in
\* the bounding box of the rounded vertices, topLeft_x <= min_x and
\* max_x <= botRight_x, and the error of inconsistent extrema is not thrown.
C30_ExtremaStayInBoundingBox ==
  Scanning =>
    /\ ~aborted
    /\ \A n \in 1..Len(ret.v.rows) :
         /\ ParseVertices(call.px_vertices).topLeft_x <= ret.v.rows[n].min_x
         /\ ret.v.rows[n].max_x <= ParseVertices(call.px_vertices).botRight_x
\* A triangle with a horizontal side, three rows scanned, one of them met by
\* no pixel to test and one with pixels pushed, and a row whose extrema are
\* not columns of vertices.
C30_Witness ==
  /\ Scanning /\ ret.done
  /\ ParseVertices(call.px_vertices).y0 = ParseVertices(call.px_vertices).y1
  /\ Len(ret.v.rows) = 3
  /\ Len(ret.v.keypointsWithIntensities) > 0
  /\ \E n \in 1..Len(ret.v.rows) :
       /\ ret.v.rows[n].min_x < ret.v.rows[n].max_x
       /\ \A x \in {ret.v.rows[n].min_x, ret.v.rows[n].max_x} :
            x \notin {ParseVertices(call.px_vertices).x0, ParseVertices(call.px_vertices).x1,
                      ParseVertices(call.px_vertices).x2}

====
